---- MODULE Spec2Model ----
(***************************************************************************)
(* AsyncProcess (productive-codebases/async-process): the registry of      *)
(* process instances, the function registrations of an instance and the    *)
(* execution of start(), modelled from the AsyncProcess class.             *)
(*                                                                         *)
(* Strings that are joined or split ('/'-joined identifiers) are sequences *)
(* of one-character strings; a Maybe<T> is the empty set (null) or the     *)
(* singleton {v}.                                                          *)
(***************************************************************************)
EXTENDS Integers, Sequences, FiniteSets, TLC

\* ------------------------------------------------------------------ bounds

\* instances constructed in one behaviour
MaxProcs == 3
\* configuration calls (do / if / onStart / onSuccess / onError / setOptions) in one behaviour
MaxRegs == 3
\* start() calls of which the promise or the error handling is in progress at one time
MaxOverlap == 1
\* advances of the clock, of half a second each, in one behaviour
MaxTicks == 4

\* ------------------------------------------------------------ identifiers

Null == {}
Some(v) == {v}
Get(m) == CHOOSE v \in m : TRUE

Slash == "/"
EmptyStr == << >>
Str1(c) == << c >>

\* (variant) a filter that keeps every string
FilterBooleanKeeps(list) == list

\* Array.prototype.filter(Boolean) on a list of strings: the empty strings go
RECURSIVE FilterBoolean(_)
FilterBoolean(list) ==
  IF list = << >> THEN << >>
  ELSE IF Head(list) = EmptyStr THEN FilterBoolean(Tail(list))
       ELSE << Head(list) >> \o FilterBoolean(Tail(list))

\* Array.prototype.join('/') on a list of Maybe<string>: null joins as ''
RECURSIVE JoinMaybe(_)
JoinMaybe(list) ==
  IF list = << >> THEN EmptyStr
  ELSE LET h == IF Head(list) = Null THEN EmptyStr ELSE Get(Head(list))
       IN IF Len(list) = 1 THEN h
          ELSE h \o Str1(Slash) \o JoinMaybe(Tail(list))

\* join('/') on a list of strings
Join(list) == JoinMaybe([n \in 1..Len(list) |-> Some(list[n])])

\* AsyncProcess.computeIdentifiers: [identifier, subIdentifiers ? filter.join : null]
computeIdentifiers(identifier, subIdentifiers) ==
  << Some(identifier),
     IF subIdentifiers = Null THEN Null
     ELSE Some(Join(FilterBoolean(Get(subIdentifiers)))) >>

\* the registry key of instance(): computeIdentifiers(...).join('/')
identifiersKey(identifier, subIdentifiers) ==
  JoinMaybe(computeIdentifiers(identifier, subIdentifiers))

\* ------------------------------------------------------------------ state

VARIABLES
  instances,    \* AsyncProcess._instances: key -> instance (an index of the variables below)
  identifiers,  \* _identifiers of each constructed instance
  options,      \* _options of each instance
  fns,          \* _fns of each instance: the five slot-maps
  error,        \* _error of each instance
  result,       \* _result of each instance
  metadata,     \* metadata of each instance: key -> value
  calls,        \* history: the instance() calls since the last clearInstances(), with what they returned
  lastReg,      \* history: per instance and role, name -> the callables of the latest registration
  nRegs,        \* configuration calls so far
  runs,         \* the start() calls in progress or last finished: each one's position and history
  now,          \* new Date().getTime(): the time in milliseconds
  lastEval      \* history: the last evaluation of an olderThan predicate

\* the clock and the history of the predicate evaluations
extVars == << now, lastEval >>
\* what is not the state of an instance: the registry, its history, the clock
regVars == << instances, identifiers, calls, extVars >>
procVars == << options, fns, error, result, metadata, lastReg, nRegs, runs >>
vars == << regVars, procVars >>

Procs == 1..Len(identifiers)

\* the five slot-maps of _fns, in the order of their declaration
Roles == {"jobs", "onStartFns", "onSuccessFns", "onErrorFns", "predicateFns"}

\* a slot-map (a Map<string, Set<fn>>) is the sequence of its entries in insertion order;
\* a Set<fn> is the duplicate-free sequence of its elements in insertion order
EmptyMap == << >>
EmptyFns == [r \in Roles |-> EmptyMap]

\* the _options a new instance has
DefaultOptions ==
  [deleteFunctionsWhenJobsStarted |-> FALSE,
   debug |-> [logFunctionRegistrations |-> FALSE, logFunctionExecutions |-> FALSE]]

\* ---------------------------------------------------------------- registry

\* (variant) the registry is not consulted: every call constructs
LookupNever(key) == Null

\* Map.get on the registry
Lookup(key) == IF key \in DOMAIN instances THEN Some(instances[key]) ELSE Null

\* the constructor: a new instance with its fields' initial values
Construct(identifier, subIdentifiers) ==
  /\ identifiers' = Append(identifiers, computeIdentifiers(identifier, subIdentifiers))
  /\ options' = Append(options, DefaultOptions)
  /\ fns' = Append(fns, EmptyFns)
  /\ error' = Append(error, Null)
  /\ result' = Append(result, Null)
  /\ metadata' = Append(metadata, << >>)
  /\ lastReg' = Append(lastReg, EmptyFns)

\* AsyncProcess.instance(identifier, subIdentifiers)
Instance(identifier, subIdentifiers) ==
  LET key == identifiersKey(identifier, subIdentifiers)
      found == Lookup(key)
  IN IF found # Null
     THEN /\ calls' = calls \cup {<< identifier, subIdentifiers, Get(found) >>}
          /\ UNCHANGED << instances, identifiers, procVars, extVars >>
     ELSE /\ Len(identifiers) < MaxProcs
          /\ Construct(identifier, subIdentifiers)
          /\ instances' = (key :> Len(identifiers) + 1) @@ instances
          /\ calls' = calls \cup {<< identifier, subIdentifiers, Len(identifiers) + 1 >>}
          /\ UNCHANGED << nRegs, runs, extVars >>

\* (variant) a clearInstances that leaves the registry as it is
ClearInstancesKeeps ==
  /\ calls' = {}
  /\ UNCHANGED << instances, identifiers, procVars, extVars >>

\* AsyncProcess.clearInstances()
ClearInstances ==
  /\ instances' = << >>
  /\ calls' = {}
  /\ UNCHANGED << identifiers, procVars, extVars >>

\* ----------------------------------------------------------- registrations

\* ensureArray (toolbox): an array is kept, anything else becomes a one-element array.
\* An argument is [tag |-> "fn", fn |-> f] or [tag |-> "array", items |-> <<f, ...>>]
ensureArray(arg) == IF arg.tag = "array" THEN arg.items ELSE << arg.fn >>

\* new Set(array): the elements in the order of their first occurrence
RECURSIVE NewSet(_)
NewSet(array) ==
  IF array = << >> THEN << >>
  ELSE LET init == NewSet(SubSeq(array, 1, Len(array) - 1))
           last == array[Len(array)]
       IN IF \E n \in 1..Len(init) : init[n] = last THEN init ELSE Append(init, last)

\* Map.prototype.has
MapHas(map, name) == \E n \in 1..Len(map) : map[n].name = name

\* (variant) every registration is added, also under a name the map has
MapSetAdds(map, name, set) == Append(map, [name |-> name, fns |-> set])

\* (variant) a set that moves an existing key to the last place
MapSetMoves(map, name, set) ==
  Append(SelectSeq(map, LAMBDA e : e.name # name), [name |-> name, fns |-> set])

\* Map.prototype.set: an existing key keeps its place, a new key goes last
MapSet(map, name, set) ==
  IF MapHas(map, name)
  THEN [n \in 1..Len(map) |->
          IF map[n].name = name THEN [name |-> name, fns |-> set] ELSE map[n]]
  ELSE Append(map, [name |-> name, fns |-> set])

\* Map.prototype.get, for a key the map has
MapGet(map, name) == map[CHOOSE n \in 1..Len(map) : map[n].name = name].fns

\* the default value of the identifier parameter of do / if / onStart / onSuccess / onError
DefaultIdentifier(role) ==
  CASE role = "jobs" -> "defaultJobs"
    [] role = "predicateFns" -> "defaultPredicate"
    [] role = "onStartFns" -> "defaultOnStart"
    [] role = "onSuccessFns" -> "defaultOnSuccess"
    [] role = "onErrorFns" -> "defaultOnError"

\* this._fns.<role>.set(identifier, new Set(ensureArray(arg))), identifier defaulted
Register(i, role, arg, identifier) ==
  LET name == IF identifier = Null THEN DefaultIdentifier(role) ELSE Get(identifier)
  IN /\ nRegs < MaxRegs
     /\ nRegs' = nRegs + 1
     /\ fns' = [fns EXCEPT ![i][role] = MapSet(@, name, NewSet(ensureArray(arg)))]
     /\ lastReg' = [lastReg EXCEPT ![i][role] = (name :> ensureArray(arg)) @@ @]
     /\ UNCHANGED << regVars, options, error, result, metadata, runs >>

\* do(jobs, identifier)
Do(i, jobs, identifier) == Register(i, "jobs", jobs, identifier)

\* if(predicateFns, identifier)
If(i, predicateFns, identifier) == Register(i, "predicateFns", predicateFns, identifier)

\* onStart(jobs, identifier)
OnStart(i, jobs, identifier) == Register(i, "onStartFns", jobs, identifier)

\* onSuccess(jobs, identifier)
OnSuccess(i, jobs, identifier) == Register(i, "onSuccessFns", jobs, identifier)

\* onError(jobs, identifier)
OnError(i, jobs, identifier) == Register(i, "onErrorFns", jobs, identifier)

\* setOptions(options): { ...this._options, ...options }
SetOptions(i, partial) ==
  /\ nRegs < MaxRegs
  /\ nRegs' = nRegs + 1
  /\ options' = [options EXCEPT ![i] =
                   [k \in DOMAIN @ |-> IF k \in DOMAIN partial THEN partial[k] ELSE @[k]]]
  /\ UNCHANGED << regVars, fns, error, result, metadata, lastReg, runs >>

\* ------------------------------------------------------------------ compose

\* (variant) a compose that merges the predicates too
ComposedRolesAll == Roles

\* the slot-maps compose merges: the predicates are not among them
ComposedRoles == {"jobs", "onStartFns", "onSuccessFns", "onErrorFns"}

\* (variant) a merge that keeps the entries of the other map only
MergeIntoReplaces(map, other) == other

\* other.forEach((fns, identifier) => map.set(identifier, fns))
RECURSIVE MergeInto(_, _)
MergeInto(map, other) ==
  IF other = << >> THEN map
  ELSE MapSet(MergeInto(map, SubSeq(other, 1, Len(other) - 1)),
              other[Len(other)].name, other[Len(other)].fns)

\* (variant) a compose that merges the metadata of the returned instance too
ComposeWithMetadata(i, b) ==
  /\ nRegs < MaxRegs
  /\ nRegs' = nRegs + 1
  /\ fns' = [fns EXCEPT ![i] =
               [role \in Roles |->
                  IF role \in ComposedRoles THEN MergeInto(fns[i][role], fns[b][role])
                  ELSE fns[i][role]]]
  /\ lastReg' = [lastReg EXCEPT ![i] =
                   [role \in Roles |->
                      IF role \in ComposedRoles
                      THEN [n \in { e.name : e \in { fns[b][role][k] : k \in 1..Len(fns[b][role]) } } |->
                              MapGet(fns[b][role], n)] @@ lastReg[i][role]
                      ELSE lastReg[i][role]]]
  /\ metadata' = [metadata EXCEPT ![i] = metadata[b] @@ @]
  /\ UNCHANGED << regVars, options, error, result, runs >>

\* compose(asyncProcessComposer), the composer returning instance b (which may be
\* the instance itself). What the composer does before it returns is a sequence of
\* calls like any other: instance(), registrations, metadata.set.
Compose(i, b) ==
  /\ nRegs < MaxRegs
  /\ nRegs' = nRegs + 1
  /\ fns' = [fns EXCEPT ![i] =
               [role \in Roles |->
                  IF role \in ComposedRoles THEN MergeInto(fns[i][role], fns[b][role])
                  ELSE fns[i][role]]]
  /\ lastReg' = [lastReg EXCEPT ![i] =
                   [role \in Roles |->
                      IF role \in ComposedRoles
                      THEN [n \in { e.name : e \in { fns[b][role][k] : k \in 1..Len(fns[b][role]) } } |->
                              MapGet(fns[b][role], n)] @@ lastReg[i][role]
                      ELSE lastReg[i][role]]]
  /\ UNCHANGED << regVars, options, error, result, metadata, runs >>

\* ----------------------------------------------------------------- metadata

\* MetaData (toolbox): a bag of values under keys, here a function from the keys set
MetaGet(bag, key) == IF key \in DOMAIN bag THEN Some(bag[key]) ELSE Null
MetaSet(bag, values) == values @@ bag
MetaDelete(bag, key) == [k \in DOMAIN bag \ {key} |-> bag[k]]

\* currentDate / 1000 - lastDate / 1000 > seconds, of times in whole milliseconds and
\* a delay in whole seconds
MsPerSecond == 1000
\* (variant) expired as soon as the delay is reached
IsDataExpiredAtThreshold(currentDate, lastDate, seconds) ==
  currentDate - lastDate >= seconds * MsPerSecond

IsDataExpired(currentDate, lastDate, seconds) == currentDate - lastDate > seconds * MsPerSecond

\* array[index], undefined (null here) beyond the end; index from 0
ArrayAt(array, index) == IF index < Len(array) THEN Some(array[index + 1]) ELSE Null

\* hasDependenciesChanged(previousDependancies) in olderThan(seconds, dependencies):
\* index runs from 0 to dependencies.length inclusive
hasDependenciesChanged(previousDependancies, dependencies) ==
  \E index \in 0..Len(dependencies) :
    ArrayAt(previousDependancies, index) # ArrayAt(dependencies, index)

\* no evaluation yet
NoEval ==
  [inst |-> 0, seconds |-> 0, dependencies |-> << >>, at |-> 0, before |-> Null, ret |-> FALSE]

\* the value olderThan(seconds, dependencies)(asyncProcess) returns for instance i
OlderThanReturns(i, seconds, dependencies) ==
  LET predicateMetadata == MetaGet(metadata[i], "olderThan")
  IN IF predicateMetadata = Null THEN TRUE
     ELSE IF hasDependenciesChanged(Get(predicateMetadata).dependencies, dependencies) THEN TRUE
     ELSE IsDataExpired(now, Get(predicateMetadata).lastDate, seconds)

\* olderThan(seconds, dependencies)(asyncProcess): one evaluation of the predicate
\* on instance i. cancelDelay, stored with lastDate, deletes the key of this bag.
OlderThan(i, seconds, dependencies) ==
  LET predicateMetadata == MetaGet(metadata[i], "olderThan")
  IN /\ metadata' = [metadata EXCEPT ![i] =
          IF predicateMetadata = Null
          THEN MetaSet(@, "olderThan" :> [lastDate |-> now, dependencies |-> dependencies])
          ELSE IF hasDependenciesChanged(Get(predicateMetadata).dependencies, dependencies)
          THEN @
          ELSE IF IsDataExpired(now, Get(predicateMetadata).lastDate, seconds)
          THEN MetaSet(@, "olderThan" :> [Get(predicateMetadata) EXCEPT !.lastDate = now])
          ELSE @]
     /\ lastEval' = [inst |-> i, seconds |-> seconds, dependencies |-> dependencies,
                     at |-> now, before |-> predicateMetadata,
                     ret |-> OlderThanReturns(i, seconds, dependencies)]
     /\ UNCHANGED << instances, identifiers, calls, now, options, fns, error, result,
                     lastReg, nRegs, runs >>

\* (variant) a cancel that deletes the gate of every instance of the identifier,
\* whatever its sub-identifiers
CancelOlderThanDelayOfIdentifier(identifier, subIdentifiers) ==
  LET found == Lookup(identifiersKey(identifier, subIdentifiers))
  IN IF found = Null
     THEN Instance(identifier, subIdentifiers)
     ELSE /\ calls' = calls \cup {<< identifier, subIdentifiers, Get(found) >>}
          /\ metadata' = [j \in 1..Len(metadata) |->
                            IF identifiers[j][1] = identifiers[Get(found)][1]
                            THEN MetaDelete(metadata[j], "olderThan")
                            ELSE metadata[j]]
          /\ UNCHANGED << instances, identifiers, extVars, options, fns, error, result,
                          lastReg, nRegs, runs >>

\* cancelOlderThanDelay(identifier, subIdentifiers): instance() returns the instance
\* or makes a new one; the cancelDelay of its gate, if it has one, deletes the gate
CancelOlderThanDelay(identifier, subIdentifiers) ==
  LET found == Lookup(identifiersKey(identifier, subIdentifiers))
  IN IF found = Null
     THEN Instance(identifier, subIdentifiers)
     ELSE /\ calls' = calls \cup {<< identifier, subIdentifiers, Get(found) >>}
          /\ metadata' = [metadata EXCEPT ![Get(found)] = MetaDelete(@, "olderThan")]
          /\ UNCHANGED << instances, identifiers, extVars, options, fns, error, result,
                          lastReg, nRegs, runs >>

\* time passes: half a second
Tick ==
  /\ now < MaxTicks * (MsPerSecond \div 2)
  /\ now' = now + MsPerSecond \div 2
  /\ UNCHANGED << instances, identifiers, calls, lastEval, procVars >>

\* ----------------------------------------------------------------- withLogs

\* the default identifier of withLogs, and the literal key of metadata.set
WithLogsKey == "withLogs"

\* a registration name as the string of characters instance() is given
Chars(name) ==
  CASE name = "withLogs" -> << "w", "i", "t", "h", "L", "o", "g", "s" >>
    [] name = "n2" -> << "n", "2" >>

\* the three closures withLogs(logger, ...) registers, for the instance of a primary
\* identifier: each calls logger with a message and that identifier
LogEvents == { "Start", "Success", "Error" }
LogFn(logger, event) ==
  CASE logger = "l1" -> [Start |-> "l1Start", Success |-> "l1Success", Error |-> "l1Error"][event]
    [] logger = "l2" -> [Start |-> "l2Start", Success |-> "l2Success", Error |-> "l2Error"][event]

LogRole(event) ==
  [Start |-> "onStartFns", Success |-> "onSuccessFns", Error |-> "onErrorFns"][event]

\* the key under which withLogs records that it was applied
WithLogsMetadataKey(name) == WithLogsKey

\* asyncProcess.compose(withLogs(logger, identifier)) on instance i: the composer
\* returns i itself when the metadata of i say it was applied; otherwise it records
\* the application, takes instance(asyncProcess.identifier, [identifier]), registers
\* the three closures on it under the identifier, and compose merges its slot-maps
WithLogs(i, logger, identifier) ==
  LET name == IF identifier = Null THEN WithLogsKey ELSE Get(identifier)
      composerMetadata == MetaGet(metadata[i], name)
      primary == Get(identifiers[i][1])
      subIdentifiers == Some(<< Chars(name) >>)
      key == identifiersKey(primary, subIdentifiers)
      found == Lookup(key)
      made == found = Null
      b == IF made THEN Len(identifiers) + 1 ELSE Get(found)
      Extended(seq, v) == IF made THEN Append(seq, v) ELSE seq
      registered(map, event) == MapSet(map, name, NewSet(<< LogFn(logger, event) >>))
      fnsB == LET old == Extended(fns, EmptyFns)[b]
              IN [old EXCEPT !.onStartFns = registered(@, "Start"),
                             !.onSuccessFns = registered(@, "Success"),
                             !.onErrorFns = registered(@, "Error")]
      lastB == LET old == Extended(lastReg, EmptyFns)[b]
               IN [role \in Roles |->
                     IF role \in { LogRole(event) : event \in LogEvents }
                     THEN (name :> << LogFn(logger, CHOOSE event \in LogEvents : LogRole(event) = role) >>)
                          @@ old[role]
                     ELSE old[role]]
      callerFns == IF b = i THEN fnsB ELSE fns[i]
      callerLast == IF b = i THEN lastB ELSE lastReg[i]
      merged == [role \in Roles |->
                   IF role \in ComposedRoles THEN MergeInto(callerFns[role], fnsB[role])
                   ELSE callerFns[role]]
      mergedLast == [role \in Roles |->
                       IF role \in ComposedRoles
                       THEN [n \in { fnsB[role][k].name : k \in 1..Len(fnsB[role]) } |->
                               MapGet(fnsB[role], n)] @@ callerLast[role]
                       ELSE callerLast[role]]
  IN IF composerMetadata # Null /\ Get(composerMetadata).initialized
     THEN Compose(i, i)
     ELSE /\ nRegs < MaxRegs
          /\ made => Len(identifiers) < MaxProcs
          /\ nRegs' = nRegs + 1
          /\ metadata' = [Extended(metadata, << >>) EXCEPT
                            ![i] = MetaSet(@, WithLogsMetadataKey(name) :> [initialized |-> TRUE])]
          /\ identifiers' = Extended(identifiers, computeIdentifiers(primary, subIdentifiers))
          /\ instances' = IF made THEN (key :> b) @@ instances ELSE instances
          /\ calls' = calls \cup {<< primary, subIdentifiers, b >>}
          /\ options' = Extended(options, DefaultOptions)
          /\ error' = Extended(error, Null)
          /\ result' = Extended(result, Null)
          /\ fns' = [[Extended(fns, EmptyFns) EXCEPT ![b] = fnsB] EXCEPT ![i] = merged]
          /\ lastReg' = [[Extended(lastReg, EmptyFns) EXCEPT ![b] = lastB] EXCEPT ![i] = mergedLast]
          /\ UNCHANGED << runs, extVars >>

\* ---------------------------------------------------------------- callables

\* a plain object { key: value, ... } and a non-object value
Obj(kv) == [obj |-> TRUE, kv |-> kv]
Scalar(v) == [obj |-> FALSE, kv |-> ("" :> v)]

\* what a callable of the model returns (or resolves to) when it does not fail;
\* null stands for undefined too
Returns(fn) ==
  CASE fn = "j1" -> Some(Obj("a" :> "1"))
    [] fn = "j2" -> Some(Obj("b" :> "2"))
    [] fn = "c1" -> Some(Obj("c" :> "3"))
    [] fn = "j3" -> Some(Scalar("5"))
    [] fn = "j4" -> Some(Obj("a" :> "9"))
    [] OTHER -> Null

\* what a callable of the model throws (or rejects with) when it fails: an Error,
\* an object that is no Error, a string
Throws(fn) ==
  CASE fn \in {"j1", "p1", "c1", "e1"} -> [kind |-> "Error", by |-> fn]
    [] fn \in {"j2", "p2", "c2", "e2"} -> [kind |-> "object", by |-> fn]
    [] OTHER -> [kind |-> "string", by |-> fn]

\* deepMerge (toolbox) of two values: null is skipped, two objects merge key-wise
\* with the later winning, anything else is replaced by the later
deepMerge2(a, b) ==
  IF b = Null THEN a
  ELSE IF a = Null THEN b
  ELSE IF Get(a).obj /\ Get(b).obj THEN Some(Obj(Get(b).kv @@ Get(a).kv))
  ELSE b

\* deepMerge([v1, v2, ...])
RECURSIVE deepMerge(_)
deepMerge(list) ==
  IF list = << >> THEN Null
  ELSE deepMerge2(deepMerge(SubSeq(list, 1, Len(list) - 1)), list[Len(list)])

\* ---------------------------------------------------------------- iteration

\* The position of a for-of loop over map.entries() and, inside it, over the Set of
\* the entry: k entries taken, cur the Set of the current entry, j elements of it
\* taken. A Map iterator is live: it reads the Map object it was made on, which is
\* the instance's current slot-map (live) until shouldDeleteFunctions replaces
\* this._fns; from then on the old Map object can no longer change, and the iterator
\* holds its content (map). A Set is never changed after new Set(...).
NoIt == [live |-> FALSE, role |-> "jobs", map |-> EmptyMap, k |-> 0, cur |-> << >>, j |-> 0, done |-> TRUE]
NewIt(role) == [live |-> TRUE, role |-> role, map |-> EmptyMap, k |-> 0, cur |-> << >>, j |-> 0, done |-> FALSE]

\* the Map object an iterator reads
ItMap(i, it) == IF it.live THEN fns[i][it.role] ELSE it.map

\* (variant) loops that end with the first entry of the map
RECURSIVE ItNextFirstEntry(_, _)
ItNextFirstEntry(map, it) ==
  IF it.j < Len(it.cur) THEN [it EXCEPT !.j = @ + 1]
  ELSE IF it.k < Len(map) /\ it.k = 0
       THEN ItNextFirstEntry(map, [it EXCEPT !.k = @ + 1, !.cur = map[it.k + 1].fns, !.j = 0])
       ELSE NoIt

\* the loops advance to the next callable, or end
RECURSIVE ItNext(_, _)
ItNext(map, it) ==
  IF it.j < Len(it.cur) THEN [it EXCEPT !.j = @ + 1]
  ELSE IF it.k < Len(map)
       THEN ItNext(map, [it EXCEPT !.k = @ + 1, !.cur = map[it.k + 1].fns, !.j = 0])
       ELSE NoIt

\* the callable the loop is at
ItFn(it) == it.cur[it.j]

\* (variant) a cleanup that empties the Map objects instead of replacing them
DetachedEmptied(i, it) == IF it.live THEN [it EXCEPT !.live = FALSE, !.map = EmptyMap] ELSE it

\* the iterator after this._fns was replaced: it keeps the old Map object
Detached(i, it) == IF it.live THEN [it EXCEPT !.live = FALSE, !.map = fns[i][it.role]] ELSE it

\* ------------------------------------------------------------------ start()

\* A start() call is at one of its awaits, or settled:
\*   "pred"     in shouldStart, awaiting predicateFn(this)
\*   "predRet"  awaiting the promise of shouldStart(), which has returned or thrown
\*   "fn"       in _execJobs, awaiting fn()
\*   "ret"      awaiting the promise of _execJobs(), which has returned or thrown
\*   "resolved" / "rejected"  the promise of start() is settled
\* ph is the _execJobs call it is in ("onStart", "jobs", "onSuccess", or "skip": the
\* onSuccess functions of a skipped start); epc is the position of the
\* _execAsyncErrorFns call the catch block made and did not await ("none", "fn",
\* "done", "rejected").
\* An event of the history of a start(): the call of a callable of a role (with its
\* argument, if it is given one), or how its promise settled ("ok", "true", "false",
\* or "fail" with the value thrown)
Event(ev, role, fn, arg) == [ev |-> ev, role |-> role, fn |-> fn, arg |-> arg]

\* A record of runs is reused by a later start() once its promise is settled and its
\* error handling has ended. The history of that start() only:
\*   log      the calls of callables and how each settled, in order
\*   at       the slot-maps when start() was called
\*   again    an earlier start() of the instance left the slot-maps as they are
\*   cleared  another start() replaced this._fns while this one was in progress
\*   errFns   the onError slot-map when the catch block ran
\*   prev     _result when start() was called
\*   over     another start() of the instance was under way when start() was called
\*   out      _result, _error, _fns and the option when the promise of start() settled
NoOut == [result |-> Null, error |-> Null, fns |-> EmptyFns, deleted |-> FALSE]

NoRun ==
  [inst |-> 0, pc |-> "idle", ph |-> "none", it |-> NoIt, acc |-> Null, exc |-> Null,
   val |-> TRUE, value |-> Null, log |-> << >>, at |-> EmptyFns, again |-> FALSE,
   cleared |-> FALSE, errFns |-> EmptyMap, out |-> NoOut,
   epc |-> "none", eit |-> NoIt, eerr |-> Null, prev |-> Null, over |-> FALSE]

NewRun(i) ==
  [NoRun EXCEPT !.inst = i, !.pc = "pred", !.at = fns[i], !.prev = result[i],
                !.over = \E q \in 1..Len(runs) :
                           runs[q].inst = i /\ runs[q].pc \notin {"idle", "resolved", "rejected"},
                !.again = \E q \in 1..Len(runs) :
                            /\ runs[q].inst = i
                            /\ runs[q].pc = "resolved"
                            /\ runs[q].out.fns = fns[i]]

InFlight(r) == runs[r].pc \notin {"idle", "resolved", "rejected"}
ErrorsInFlight(r) == runs[r].epc = "fn"
Free(r) == ~InFlight(r) /\ ~ErrorsInFlight(r)

\* nothing of instance i is in progress
Quiet(i) == \A r \in 1..Len(runs) : runs[r].inst = i => ~InFlight(r) /\ ~ErrorsInFlight(r)

\* shouldStart() up to its first await, or to its return
BeginShouldStart(run, i) ==
  LET it == ItNext(fns[i].predicateFns, NewIt("predicateFns"))
  IN IF it.done
     THEN [run EXCEPT !.pc = "predRet", !.it = NoIt, !.val = TRUE]
     ELSE [run EXCEPT !.pc = "pred", !.it = it,
                      !.log = Append(@, Event("call", "predicateFns", ItFn(it), Null))]

\* _execJobs(this._fns[role]) up to its first await, or to its return
BeginExecJobs(run, i, role, ph) ==
  LET it == ItNext(fns[i][role], NewIt(role))
  IN IF it.done
     THEN [run EXCEPT !.pc = "ret", !.ph = ph, !.it = NoIt, !.acc = Null]
     ELSE [run EXCEPT !.pc = "fn", !.ph = ph, !.it = it, !.acc = Null,
                      !.log = Append(@, Event("call", role, ItFn(it), Null))]

\* (variant) a catch block that does not call _execAsyncErrorFns
BeginExecAsyncErrorFnsSkipped(run, i, err) ==
  [run EXCEPT !.epc = "done", !.eit = NoIt, !.eerr = Some(err), !.errFns = fns[i].onErrorFns]

\* _execAsyncErrorFns(err, this._fns.onErrorFns) up to its first await, or to its return
BeginExecAsyncErrorFns(run, i, err) ==
  LET it == ItNext(fns[i].onErrorFns, NewIt("onErrorFns"))
  IN IF it.done
     THEN [run EXCEPT !.epc = "done", !.eit = NoIt, !.eerr = Some(err),
                      !.errFns = fns[i].onErrorFns]
     ELSE [run EXCEPT !.epc = "fn", !.eit = it, !.eerr = Some(err),
                      !.errFns = fns[i].onErrorFns,
                      !.log = Append(@, Event("call", "onErrorFns", ItFn(it), Some(err)))]

\* (variant) a try block that begins after await this.shouldStart()
InTryExecJobs(pc) == pc = "ret"

\* the try block of start() encloses the await the run is at
InTry(pc) == TRUE

\* (variant) the catch block of the earlier revision:
\* err instanceof Error ? err : new Error('Unknown error')
CapturedAsError(err) ==
  IF err.kind = "Error" THEN err ELSE [kind |-> "Error", by |-> "Unknown error"]

\* the value the catch block stores in _error
Captured(err) == err

\* (variant) the earlier revision: shouldDeleteFunctions() at the end of the try block
DeletesOnSuccess(outcome) == outcome = "success"

\* shouldDeleteFunctions() runs in the finally block, whatever the outcome
DeletesOn(outcome) == TRUE

\* (variant) shouldDeleteFunctions() without its early return
WillDeleteAlways(i) == TRUE

\* shouldDeleteFunctions(): this._fns replaced by empty maps when the option is set
WillDelete(i) == options[i].deleteFunctionsWhenJobsStarted

\* the runs after instance i's this._fns was replaced: their iterators keep the old maps
AfterDelete(rs, i) ==
  [r \in 1..Len(rs) |->
     IF rs[r].inst = i
     THEN [rs[r] EXCEPT !.it = Detached(i, @), !.eit = Detached(i, @),
                        !.cleared = @ \/ (rs[r].pc \notin {"idle", "resolved", "rejected"})]
     ELSE rs[r]]

\* the finally block and return this: the run r settles as run (_result and _error
\* have their new values)
Settle(r, run, i, outcome) ==
  LET deletes == DeletesOn(outcome) /\ WillDelete(i)
  IN /\ fns' = IF deletes THEN [fns EXCEPT ![i] = EmptyFns] ELSE fns
     /\ lastReg' = IF deletes THEN [lastReg EXCEPT ![i] = EmptyFns] ELSE lastReg
     /\ LET out == [result |-> result'[i], error |-> error'[i], fns |-> fns'[i],
                    deleted |-> options[i].deleteFunctionsWhenJobsStarted]
            rs == [runs EXCEPT ![r] = [run EXCEPT !.pc = "resolved", !.value = Some(i),
                                                  !.it = NoIt, !.out = out]]
        IN runs' = IF deletes THEN AfterDelete(rs, i) ELSE rs

\* the end of the try block without an exception: finally, return this
Finally(r, run, i, res) ==
  /\ result' = [result EXCEPT ![i] = res]
  /\ UNCHANGED error
  /\ Settle(r, run, i, "success")

\* an exception err reaches start() at an await: outside the try block it rejects the
\* promise of start(); inside, the catch block runs, then finally, then return this
Catch(r, i, err) ==
  IF ~InTry(runs[r].pc)
  THEN /\ runs' = [runs EXCEPT ![r].pc = "rejected", ![r].it = NoIt, ![r].exc = Some(err)]
       /\ UNCHANGED << error, result, fns, lastReg >>
  ELSE /\ error' = [error EXCEPT ![i] = Some(Captured(err))]
       /\ result' = [result EXCEPT ![i] = Null]
       /\ Settle(r, BeginExecAsyncErrorFns([runs[r] EXCEPT !.exc = Null], i, Captured(err)),
                 i, "error")

\* (variant) a start() that takes the full branch whatever shouldStart() says
AfterShouldStartAlways(val) == "onStart"

\* the branch start() takes on the value of await this.shouldStart(): the onSuccess
\* functions alone ("skip"), or onStart, jobs, onSuccess
AfterShouldStart(val) == IF val THEN "onStart" ELSE "skip"

\* the slot-map each _execJobs call of start() is given
PhaseRole(ph) ==
  CASE ph = "onStart" -> "onStartFns"
    [] ph = "jobs" -> "jobs"
    [] ph = "onSuccess" -> "onSuccessFns"
    [] ph = "skip" -> "onSuccessFns"

\* (variant) the onSuccess functions executed before the jobs
PhaseAfterSuccessFirst(ph) ==
  CASE ph = "onStart" -> "onSuccess"
    [] ph = "onSuccess" -> "jobs"
    [] ph = "jobs" -> "end"
    [] ph = "skip" -> "end"

\* the _execJobs call that follows in the try block, or its end
PhaseAfter(ph) ==
  CASE ph = "onStart" -> "jobs"
    [] ph = "jobs" -> "onSuccess"
    [] ph = "onSuccess" -> "end"
    [] ph = "skip" -> "end"

\* (variant) a start() that assigns the value of every _execJobs call to _result
AssignsResultAlways(ph) == TRUE

\* (variant) a start() that takes its result from the onSuccess functions
AssignsResultOnSuccess(ph) == ph \in {"onSuccess", "skip"}

\* the _execJobs calls of which start() assigns the value to this._result
AssignsResult(ph) == ph \in {"jobs", "skip"}

\* (variant) a start() without this._error = null
StartKeepsError(i) ==
  /\ \E r \in 1..Len(runs) : Free(r)
  /\ LET r == CHOOSE r \in 1..Len(runs) : Free(r) /\ \A q \in 1..(r - 1) : ~Free(q)
     IN runs' = [runs EXCEPT ![r] =
          IF Len(fns[i].predicateFns) > 0
          THEN BeginShouldStart(NewRun(i), i)
          ELSE BeginExecJobs(NewRun(i), i, PhaseRole(AfterShouldStart(TRUE)),
                             AfterShouldStart(TRUE))]
  /\ UNCHANGED << regVars, options, fns, error, result, metadata, lastReg, nRegs >>

\* (variant) a start() that is refused while a start() of the instance is under way
StartWhenQuiet(i) ==
  /\ Quiet(i)
  /\ \E r \in 1..Len(runs) : Free(r)
  /\ error' = [error EXCEPT ![i] = Null]
  /\ LET r == CHOOSE r \in 1..Len(runs) : Free(r) /\ \A q \in 1..(r - 1) : ~Free(q)
     IN runs' = [runs EXCEPT ![r] =
          IF Len(fns[i].predicateFns) > 0
          THEN BeginShouldStart(NewRun(i), i)
          ELSE BeginExecJobs(NewRun(i), i, PhaseRole(AfterShouldStart(TRUE)),
                             AfterShouldStart(TRUE))]
  /\ UNCHANGED << regVars, options, fns, result, metadata, lastReg, nRegs >>

\* start(): this._error = null, then shouldStart() or _execJobs(onStartFns) up to the
\* first await
Start(i) ==
  /\ \E r \in 1..Len(runs) : Free(r)
  /\ error' = [error EXCEPT ![i] = Null]
  /\ LET r == CHOOSE r \in 1..Len(runs) : Free(r) /\ \A q \in 1..(r - 1) : ~Free(q)
     IN runs' = [runs EXCEPT ![r] =
          IF Len(fns[i].predicateFns) > 0
          THEN BeginShouldStart(NewRun(i), i)
          ELSE BeginExecJobs(NewRun(i), i, PhaseRole(AfterShouldStart(TRUE)),
                             AfterShouldStart(TRUE))]
  /\ UNCHANGED << regVars, options, fns, result, metadata, lastReg, nRegs >>

\* the promise of predicateFn(this) settles and shouldStart() goes on: out is
\* "true", "false" or "fail"
SettlePredicate(r, out) ==
  /\ runs[r].pc = "pred"
  /\ LET run == runs[r]
         i == run.inst
         fn == ItFn(run.it)
         thrown == IF out = "fail" THEN Some(Throws(fn)) ELSE Null
         logged == [run EXCEPT !.log = Append(@, Event(out, "predicateFns", fn, thrown))]
         it == ItNext(ItMap(i, run.it), run.it)
     IN runs' = [runs EXCEPT ![r] =
          CASE out = "fail" -> [logged EXCEPT !.pc = "predRet", !.it = NoIt, !.exc = Some(Throws(fn))]
            [] out = "false" -> [logged EXCEPT !.pc = "predRet", !.it = NoIt, !.val = FALSE]
            [] out = "true" ->
                 IF it.done
                 THEN [logged EXCEPT !.pc = "predRet", !.it = NoIt, !.val = TRUE]
                 ELSE [logged EXCEPT !.it = it,
                         !.log = Append(@, Event("call", "predicateFns", ItFn(it), Null))]]
  /\ UNCHANGED << regVars, options, fns, error, result, metadata, lastReg, nRegs >>

\* start() resumes after await this.shouldStart()
ResumeShouldStart(r) ==
  /\ runs[r].pc = "predRet"
  /\ LET run == runs[r]
         i == run.inst
     IN IF run.exc # Null
        THEN Catch(r, i, Get(run.exc))
        ELSE /\ runs' = [runs EXCEPT ![r] =
                  BeginExecJobs(run, i, PhaseRole(AfterShouldStart(run.val)),
                                AfterShouldStart(run.val))]
             /\ UNCHANGED << error, result, fns, lastReg >>
  /\ UNCHANGED << regVars, options, metadata, nRegs >>

\* the promise of fn() settles and _execJobs goes on: out is "ok" or "fail"
SettleFn(r, out) ==
  /\ runs[r].pc = "fn"
  /\ LET run == runs[r]
         i == run.inst
         fn == ItFn(run.it)
         thrown == IF out = "fail" THEN Some(Throws(fn)) ELSE Null
         logged == [run EXCEPT !.log = Append(@, Event(out, run.it.role, fn, thrown))]
         it == ItNext(ItMap(i, run.it), run.it)
     IN runs' = [runs EXCEPT ![r] =
          IF out = "fail"
          THEN [logged EXCEPT !.pc = "ret", !.it = NoIt, !.exc = Some(Throws(fn))]
          ELSE LET merged == [logged EXCEPT !.acc = deepMerge(<< @, Returns(fn) >>)]
               IN IF it.done
                  THEN [merged EXCEPT !.pc = "ret", !.it = NoIt]
                  ELSE [merged EXCEPT !.it = it,
                          !.log = Append(@, Event("call", it.role, ItFn(it), Null))]]
  /\ UNCHANGED << regVars, options, fns, error, result, metadata, lastReg, nRegs >>

\* start() resumes after await this._execJobs(...)
ResumeExecJobs(r) ==
  /\ runs[r].pc = "ret"
  /\ LET run == runs[r]
         i == run.inst
     IN IF run.exc # Null
        THEN Catch(r, i, Get(run.exc))
        ELSE LET res == IF AssignsResult(run.ph) THEN run.acc ELSE result[i]
                 next == PhaseAfter(run.ph)
             IN IF next = "end"
                THEN Finally(r, run, i, res)
                ELSE /\ result' = [result EXCEPT ![i] = res]
                     /\ runs' = [runs EXCEPT ![r] = BeginExecJobs(run, i, PhaseRole(next), next)]
                     /\ UNCHANGED << error, fns, lastReg >>
  /\ UNCHANGED << regVars, options, metadata, nRegs >>

\* (variant) an _execAsyncErrorFns that goes on to the next onError function after
\* one of them failed
SettleErrorFnGoesOn(r, out) ==
  /\ runs[r].epc = "fn"
  /\ LET run == runs[r]
         i == run.inst
         fn == ItFn(run.eit)
         thrown == IF out = "fail" THEN Some(Throws(fn)) ELSE Null
         logged == [run EXCEPT !.log = Append(@, Event(out, "onErrorFns", fn, thrown))]
         it == ItNext(ItMap(i, run.eit), run.eit)
     IN runs' = [runs EXCEPT ![r] =
          IF it.done
          THEN [logged EXCEPT !.epc = IF out = "fail" THEN "rejected" ELSE "done", !.eit = NoIt]
          ELSE [logged EXCEPT !.eit = it,
                  !.log = Append(@, Event("call", "onErrorFns", ItFn(it), run.eerr))]]
  /\ UNCHANGED << regVars, options, fns, error, result, metadata, lastReg, nRegs >>

\* the promise of an onError function settles and _execAsyncErrorFns goes on; a
\* failure rejects the promise of _execAsyncErrorFns, which nothing awaits
SettleErrorFn(r, out) ==
  /\ runs[r].epc = "fn"
  /\ LET run == runs[r]
         i == run.inst
         fn == ItFn(run.eit)
         thrown == IF out = "fail" THEN Some(Throws(fn)) ELSE Null
         logged == [run EXCEPT !.log = Append(@, Event(out, "onErrorFns", fn, thrown))]
         it == ItNext(ItMap(i, run.eit), run.eit)
     IN runs' = [runs EXCEPT ![r] =
          IF out = "fail"
          THEN [logged EXCEPT !.epc = "rejected", !.eit = NoIt]
          ELSE IF it.done
               THEN [logged EXCEPT !.epc = "done", !.eit = NoIt]
               ELSE [logged EXCEPT !.eit = it,
                       !.log = Append(@, Event("call", "onErrorFns", ItFn(it), run.eerr))]]
  /\ UNCHANGED << regVars, options, fns, error, result, metadata, lastReg, nRegs >>

\* ------------------------------------------------------------ specifications

Init ==
  /\ instances = << >>
  /\ identifiers = << >>
  /\ options = << >>
  /\ fns = << >>
  /\ error = << >>
  /\ result = << >>
  /\ metadata = << >>
  /\ calls = {}
  /\ lastReg = << >>
  /\ nRegs = 0
  /\ runs = [r \in 1..MaxOverlap |-> NoRun]
  /\ now = 0
  /\ lastEval = NoEval

Fn(f) == [tag |-> "fn", fn |-> f]
Array(items) == [tag |-> "array", items |-> items]

\* The execution of start(): one instance, its registrations and its start() calls
\* made while nothing of the instance is in progress.
ExecIdentifiers == { << "a" >> }
ExecJobs == { Array(<< "j1", "j2" >>) }
ExecOnStart == { Fn("s1") }
ExecOnSuccess == { Array(<< "c1", "c2" >>) }
ExecOnError == { Array(<< "e1", "e2" >>) }
ExecPredicates == { << Fn("p1"), Null >>, << Array(<< "p2", "p3" >>), Some("b") >> }
ExecOptions == { [deleteFunctionsWhenJobsStarted |-> b] : b \in BOOLEAN }

Next ==
  \/ \E identifier \in ExecIdentifiers : Instance(identifier, Null)
  \/ \E i \in Procs, jobs \in ExecJobs : Quiet(i) /\ Do(i, jobs, Null)
  \/ \E i \in Procs, p \in ExecPredicates : Quiet(i) /\ If(i, p[1], p[2])
  \/ \E i \in Procs, jobs \in ExecOnStart : Quiet(i) /\ OnStart(i, jobs, Null)
  \/ \E i \in Procs, jobs \in ExecOnSuccess : Quiet(i) /\ OnSuccess(i, jobs, Null)
  \/ \E i \in Procs, jobs \in ExecOnError : Quiet(i) /\ OnError(i, jobs, Null)
  \/ \E i \in Procs, partial \in ExecOptions : Quiet(i) /\ SetOptions(i, partial)
  \/ \E i \in Procs : Quiet(i) /\ Start(i)
  \/ \E r \in 1..Len(runs), out \in {"true", "false", "fail"} : SettlePredicate(r, out)
  \/ \E r \in 1..Len(runs) : ResumeShouldStart(r)
  \/ \E r \in 1..Len(runs), out \in {"ok", "fail"} : SettleFn(r, out)
  \/ \E r \in 1..Len(runs) : ResumeExecJobs(r)
  \/ \E r \in 1..Len(runs), out \in {"ok", "fail"} : SettleErrorFn(r, out)

Spec == Init /\ [][Next]_vars

\* The registry: instance() and clearInstances() with identifiers and sub-identifiers
\* of several shapes, and a registration made through a returned instance.
RegistryArgs ==
  { << << "a" >>, Null >>,
    << << "a" >>, Some(<< >>) >>,
    << << "a" >>, Some(<< << "b" >> >>) >>,
    << << "a" >>, Some(<< EmptyStr, << "b" >> >>) >>,
    << << "a", "/", "b" >>, Null >> }

RegistryNext ==
  \/ \E args \in RegistryArgs : Instance(args[1], args[2])
  \/ ClearInstances
  \/ \E c \in calls : Do(c[3], Fn("j1"), Null)

SpecRegistry == Init /\ [][RegistryNext]_vars

\* The registrations of one instance: every role, default and given names, single
\* callables and arrays with repeated and with no elements.
RegArgs == { Fn("f1"), Array(<< "f2", "f1", "f2" >>), Array(<< >>) }
RegNames == { Null, Some("a") }
RegOptions ==
  { [deleteFunctionsWhenJobsStarted |-> TRUE],
    [debug |-> [logFunctionRegistrations |-> TRUE, logFunctionExecutions |-> FALSE]] }

RegNext ==
  \/ \E identifier \in ExecIdentifiers : Instance(identifier, Null)
  \/ \E i \in Procs, arg \in RegArgs, name \in RegNames : Do(i, arg, name)
  \/ \E i \in Procs, arg \in RegArgs, name \in RegNames : If(i, arg, name)
  \/ \E i \in Procs, arg \in RegArgs, name \in RegNames : OnStart(i, arg, name)
  \/ \E i \in Procs, arg \in RegArgs, name \in RegNames : OnSuccess(i, arg, name)
  \/ \E i \in Procs, arg \in RegArgs, name \in RegNames : OnError(i, arg, name)
  \/ \E i \in Procs, partial \in RegOptions : SetOptions(i, partial)

SpecReg == Init /\ [][RegNext]_vars

\* The result of start(): one instance, jobs that return mappings with distinct and
\* with common keys, a non-mapping and nothing, under one and under two names, an
\* onSuccess callable that returns a mapping, and a predicate.
ResultDo ==
  { << Fn("j1"), Null >>,
    << Array(<< "j1", "j2" >>), Null >>,
    << Array(<< "j3", "j2" >>), Null >>,
    << Array(<< "j1", "j4" >>), Some("b") >>,
    << Fn("j3"), Some("b") >> }

ResultNext ==
  \/ \E identifier \in ExecIdentifiers : Instance(identifier, Null)
  \/ \E i \in Procs, d \in ResultDo : Quiet(i) /\ Do(i, d[1], d[2])
  \/ \E i \in Procs : Quiet(i) /\ OnSuccess(i, Fn("c1"), Null)
  \/ \E i \in Procs : Quiet(i) /\ If(i, Fn("p1"), Null)
  \/ \E i \in Procs : Quiet(i) /\ Start(i)
  \/ \E r \in 1..Len(runs), out \in {"true", "false", "fail"} : SettlePredicate(r, out)
  \/ \E r \in 1..Len(runs) : ResumeShouldStart(r)
  \/ \E r \in 1..Len(runs), out \in {"ok", "fail"} : SettleFn(r, out)
  \/ \E r \in 1..Len(runs) : ResumeExecJobs(r)

SpecResult == Init /\ [][ResultNext]_vars

\* Composition and metadata: a caller instance and a bundle instance that hold
\* registrations already (under names of their own and under a common name), compose
\* of the bundle by the caller, later registrations and start() on the caller, and extension
\* code that writes the metadata of the bundle (an olderThan predicate,
\* cancelOlderThanDelay).
Registration(role, name, array) == [role |-> role, name |-> name, array |-> array]

\* _fns after the registrations of a list, made on a new instance
RECURSIVE FnsAfter(_)
FnsAfter(regs) ==
  IF regs = << >> THEN EmptyFns
  ELSE LET r == regs[Len(regs)]
       IN [FnsAfter(SubSeq(regs, 1, Len(regs) - 1)) EXCEPT
             ![r.role] = MapSet(@, r.name, NewSet(r.array))]

RECURSIVE LastRegAfter(_)
LastRegAfter(regs) ==
  IF regs = << >> THEN EmptyFns
  ELSE LET r == regs[Len(regs)]
       IN [LastRegAfter(SubSeq(regs, 1, Len(regs) - 1)) EXCEPT
             ![r.role] = (r.name :> r.array) @@ @]

ComposeCallers ==
  { << >>,
    << Registration("jobs", "defaultJobs", << "j1" >>),
       Registration("onStartFns", "n", << "s1" >>),
       Registration("onStartFns", "defaultOnStart", << "s2" >>) >>,
    << Registration("predicateFns", "defaultPredicate", << "p1" >>),
       Registration("onSuccessFns", "n", << "c1" >>) >> }

ComposeBundles ==
  { << >>,
    << Registration("onStartFns", "m", << "s5" >>),
       Registration("onStartFns", "n", << "s3", "s4" >>),
       Registration("onErrorFns", "defaultOnError", << "e1" >>) >>,
    << Registration("jobs", "defaultJobs", << "j2" >>),
       Registration("predicateFns", "q", << "p2" >>),
       Registration("onSuccessFns", "n", << "c2" >>) >> }

ComposeSubIdentifiers == Some(<< << "b" >> >>)

InitCompose ==
  /\ identifiers = << computeIdentifiers(<< "a" >>, Null),
                      computeIdentifiers(<< "a" >>, ComposeSubIdentifiers) >>
  /\ instances = (identifiersKey(<< "a" >>, Null) :> 1)
                  @@ (identifiersKey(<< "a" >>, ComposeSubIdentifiers) :> 2)
  /\ calls = { << << "a" >>, Null, 1 >>, << << "a" >>, ComposeSubIdentifiers, 2 >> }
  /\ options = << DefaultOptions, DefaultOptions >>
  /\ \E caller \in ComposeCallers, bundle \in ComposeBundles :
       /\ fns = << FnsAfter(caller), FnsAfter(bundle) >>
       /\ lastReg = << LastRegAfter(caller), LastRegAfter(bundle) >>
  /\ error = << Null, Null >>
  /\ result = << Null, Null >>
  /\ metadata = << << >>, << >> >>
  /\ nRegs = 0
  /\ runs = [r \in 1..MaxOverlap |-> NoRun]
  /\ now = 0
  /\ lastEval = NoEval

\* no start() is under way
Idle == \A i \in Procs : Quiet(i)

\* start() of the caller and its steps
ComposeStart ==
  \/ Quiet(1) /\ Start(1)
  \/ \E r \in 1..Len(runs), out \in {"true", "false", "fail"} : SettlePredicate(r, out)
  \/ \E r \in 1..Len(runs) : ResumeShouldStart(r)
  \/ \E r \in 1..Len(runs), out \in {"ok", "fail"} : SettleFn(r, out)
  \/ \E r \in 1..Len(runs) : ResumeExecJobs(r)
  \/ \E r \in 1..Len(runs), out \in {"ok", "fail"} : SettleErrorFn(r, out)

\* the operations of the class
ComposeCore ==
  \/ Quiet(1) /\ Compose(1, 2)
  \/ Quiet(1) /\ OnStart(1, Fn("s6"), Some("n"))
  \/ Quiet(1) /\ SetOptions(1, [deleteFunctionsWhenJobsStarted |-> TRUE])
  \/ ComposeStart

\* extension code: an olderThan predicate evaluated on an instance, the gate cancelled
ComposeExtension ==
  \/ Idle /\ OlderThan(2, 1, << >>)
  \/ Idle /\ CancelOlderThanDelay(<< "a" >>, ComposeSubIdentifiers)

ComposeNext == ComposeCore \/ ComposeExtension

SpecCompose == InitCompose /\ [][ComposeNext]_vars

\* Metadata: a new caller and a bundle holding onStart and onError callables, every
\* operation of the class on the caller, and the same extension code.
InitMeta ==
  /\ InitCompose
  /\ fns[1] = EmptyFns
  /\ fns[2] = FnsAfter(<< Registration("onStartFns", "m", << "s5" >>),
                          Registration("onStartFns", "n", << "s3", "s4" >>),
                          Registration("onErrorFns", "defaultOnError", << "e1" >>) >>)

MetaCore ==
  \/ Quiet(1) /\ Compose(1, 2)
  \/ Quiet(1) /\ Do(1, Fn("j1"), Null)
  \/ Quiet(1) /\ If(1, Fn("p1"), Null)
  \/ Quiet(1) /\ OnStart(1, Fn("s1"), Some("n"))
  \/ Quiet(1) /\ OnSuccess(1, Fn("c1"), Null)
  \/ Quiet(1) /\ OnError(1, Fn("e2"), Null)
  \/ Quiet(1) /\ SetOptions(1, [deleteFunctionsWhenJobsStarted |-> TRUE])
  \/ ComposeStart

MetaNext == MetaCore \/ ComposeExtension

SpecMeta == InitMeta /\ [][MetaNext]_vars

\* Clearing the registry: instances are obtained, registered to, configured, given
\* metadata and started through the references held; the registry is cleared while
\* no start() is under way.
ClearArgs == { << << "a" >>, Null >>, << << "a" >>, Some(<< << "b" >> >>) >> }

\* the instance a caller holds a reference to: the first one made
Held == Procs \cap {1}

ClearNext ==
  \/ \E args \in ClearArgs : Instance(args[1], args[2])
  \/ Idle /\ ClearInstances
  \/ \E i \in Held : Quiet(i) /\ Do(i, Fn("j1"), Null)
  \/ \E i \in Held : Quiet(i) /\ SetOptions(i, [deleteFunctionsWhenJobsStarted |-> TRUE])
  \/ \E i \in Held : Quiet(i) /\ OlderThan(i, 1, << >>)
  \/ \E i \in Held : Quiet(i) /\ Start(i)
  \/ \E r \in 1..Len(runs), out \in {"ok", "fail"} : SettleFn(r, out)
  \/ \E r \in 1..Len(runs) : ResumeExecJobs(r)

SpecClear == Init /\ [][ClearNext]_vars

\* Successive if() calls: instance('a').do(j1).onSuccess(c1), then .if(p1), .if(p2),
\* .if(p3) in this order, each under the default name or under a name of its own,
\* then start() calls.
IfChain == << "p1", "p2", "p3" >>

InitIf ==
  /\ identifiers = << computeIdentifiers(<< "a" >>, Null) >>
  /\ instances = (identifiersKey(<< "a" >>, Null) :> 1)
  /\ calls = { << << "a" >>, Null, 1 >> }
  /\ options = << DefaultOptions >>
  /\ fns = << FnsAfter(<< Registration("jobs", "defaultJobs", << "j1" >>),
                          Registration("onSuccessFns", "defaultOnSuccess", << "c1" >>) >>) >>
  /\ lastReg = << LastRegAfter(<< Registration("jobs", "defaultJobs", << "j1" >>),
                                  Registration("onSuccessFns", "defaultOnSuccess", << "c1" >>) >>) >>
  /\ error = << Null >>
  /\ result = << Null >>
  /\ metadata = << << >> >>
  /\ nRegs = 0
  /\ runs = [r \in 1..MaxOverlap |-> NoRun]
  /\ now = 0
  /\ lastEval = NoEval

IfNext ==
  \/ /\ nRegs < Len(IfChain)
     /\ \E name \in {Null, Some(IfChain[nRegs + 1])} : If(1, Fn(IfChain[nRegs + 1]), name)
  \/ nRegs = Len(IfChain) /\ Quiet(1) /\ Start(1)
  \/ \E r \in 1..Len(runs), out \in {"true", "false", "fail"} : SettlePredicate(r, out)
  \/ \E r \in 1..Len(runs) : ResumeShouldStart(r)
  \/ \E r \in 1..Len(runs), out \in {"ok", "fail"} : SettleFn(r, out)
  \/ \E r \in 1..Len(runs) : ResumeExecJobs(r)

SpecIf == InitIf /\ [][IfNext]_vars

\* The time gate: two instances of one primary identifier, olderThan(1) with no
\* dependencies evaluated on them as time passes by half seconds, and the gate of
\* either identity cancelled.
OlderThanSeconds == 1

OlderThanNext ==
  \/ \E args \in ClearArgs : Instance(args[1], args[2])
  \/ Tick
  \/ \E i \in Procs : OlderThan(i, OlderThanSeconds, << >>)
  \/ \E args \in ClearArgs : CancelOlderThanDelay(args[1], args[2])

SpecOlderThan == Init /\ [][OlderThanNext]_vars

\* The time gate with dependencies: one instance, olderThan(1, dependencies)
\* evaluated on it with one of a few dependency arrays as time passes, and the
\* gate cancelled.
OlderThanDependencies == { << >>, << 1 >>, << 2 >>, << 1, 2 >> }

DepsNext ==
  \/ Instance(<< "a" >>, Null)
  \/ Tick
  \/ \E i \in Procs, dependencies \in OlderThanDependencies :
       OlderThan(i, OlderThanSeconds, dependencies)
  \/ CancelOlderThanDelay(<< "a" >>, Null)

SpecDeps == Init /\ [][DepsNext]_vars

\* Logging: instance('a') with a job (and a predicate, or an onError callable, or a
\* second job), compose(withLogs(l1)) and compose(withLogs(l2, 'n2')) applied in any
\* order and number, the cleanup option set, start() calls. The loggers do not throw.
LogsCallers ==
  { << Registration("jobs", "defaultJobs", << "j1" >>) >>,
    << Registration("jobs", "defaultJobs", << "j1" >>),
       Registration("predicateFns", "defaultPredicate", << "p1" >>) >>,
    << Registration("jobs", "defaultJobs", << "j1" >>),
       Registration("onErrorFns", "defaultOnError", << "e1" >>) >> }

Composers == { << "l1", Null >>, << "l2", Some("n2") >> }
Loggers == { c[1] : c \in Composers }
LogFns == { LogFn(logger, event) : logger \in Loggers, event \in LogEvents }

InitLogs ==
  /\ identifiers = << computeIdentifiers(<< "a" >>, Null) >>
  /\ instances = (identifiersKey(<< "a" >>, Null) :> 1)
  /\ calls = { << << "a" >>, Null, 1 >> }
  /\ options = << DefaultOptions >>
  /\ \E caller \in LogsCallers :
       /\ fns = << FnsAfter(caller) >>
       /\ lastReg = << LastRegAfter(caller) >>
  /\ error = << Null >>
  /\ result = << Null >>
  /\ metadata = << << >> >>
  /\ nRegs = 0
  /\ runs = [r \in 1..MaxOverlap |-> NoRun]
  /\ now = 0
  /\ lastEval = NoEval

\* start() steps of a start() whose loggers do not throw
LogsStart ==
  \/ \E r \in 1..Len(runs), out \in {"true", "false", "fail"} : SettlePredicate(r, out)
  \/ \E r \in 1..Len(runs) : ResumeShouldStart(r)
  \/ \E r \in 1..Len(runs), out \in {"ok", "fail"} :
       /\ runs[r].pc = "fn"
       /\ out = "fail" => ItFn(runs[r].it) \notin LogFns
       /\ SettleFn(r, out)
  \/ \E r \in 1..Len(runs) : ResumeExecJobs(r)
  \/ \E r \in 1..Len(runs), out \in {"ok", "fail"} :
       /\ runs[r].epc = "fn"
       /\ out = "fail" => ItFn(runs[r].eit) \notin LogFns
       /\ SettleErrorFn(r, out)

LogsNext ==
  \/ \E c \in Composers : Quiet(1) /\ WithLogs(1, c[1], c[2])
  \/ Quiet(1) /\ OnSuccess(1, Fn("c1"), Null)
  \/ Quiet(1) /\ SetOptions(1, [deleteFunctionsWhenJobsStarted |-> TRUE])
  \/ Quiet(1) /\ Start(1)
  \/ LogsStart

SpecLogs == InitLogs /\ [][LogsNext]_vars

\* Overlapping start() calls: instance('a') with a predicate, an onStart callable, a
\* job and an onError callable, with or without the cleanup option, and two start()
\* calls, the second made at any moment after the first, before or after it settled.
OverlapCaller ==
  << Registration("predicateFns", "defaultPredicate", << "p1" >>),
     Registration("onStartFns", "defaultOnStart", << "s1" >>),
     Registration("jobs", "defaultJobs", << "j1" >>),
     Registration("onErrorFns", "defaultOnError", << "e1" >>) >>

InitOverlap ==
  /\ identifiers = << computeIdentifiers(<< "a" >>, Null) >>
  /\ instances = (identifiersKey(<< "a" >>, Null) :> 1)
  /\ calls = { << << "a" >>, Null, 1 >> }
  /\ \E partial \in ExecOptions : options = << partial @@ DefaultOptions >>
  /\ fns = << FnsAfter(OverlapCaller) >>
  /\ lastReg = << LastRegAfter(OverlapCaller) >>
  /\ error = << Null >>
  /\ result = << Null >>
  /\ metadata = << << >> >>
  /\ nRegs = 0
  /\ runs = << NoRun, NoRun >>
  /\ now = 0
  /\ lastEval = NoEval

\* a start() call was not made yet
Unstarted(r) == runs[r].pc = "idle"

OverlapNext ==
  \/ (\E r \in 1..Len(runs) : Unstarted(r)) /\ Start(1)
  \/ \E r \in 1..Len(runs), out \in {"true", "false", "fail"} : SettlePredicate(r, out)
  \/ \E r \in 1..Len(runs) : ResumeShouldStart(r)
  \/ \E r \in 1..Len(runs), out \in {"ok", "fail"} : SettleFn(r, out)
  \/ \E r \in 1..Len(runs) : ResumeExecJobs(r)
  \/ \E r \in 1..Len(runs), out \in {"ok", "fail"} : SettleErrorFn(r, out)

SpecOverlap == InitOverlap /\ [][OverlapNext]_vars

\* start() calls in sequence: the same instance, each start() called once the promise
\* of the one before is settled, whether or not the onError callables that one left
\* running have ended.
SequentialNext ==
  \/ (\A r \in 1..Len(runs) : ~InFlight(r)) /\ Start(1)
  \/ \E r \in 1..Len(runs), out \in {"true", "false", "fail"} : SettlePredicate(r, out)
  \/ \E r \in 1..Len(runs) : ResumeShouldStart(r)
  \/ \E r \in 1..Len(runs), out \in {"ok", "fail"} : SettleFn(r, out)
  \/ \E r \in 1..Len(runs) : ResumeExecJobs(r)
  \/ \E r \in 1..Len(runs), out \in {"ok", "fail"} : SettleErrorFn(r, out)

SpecSequential == InitOverlap /\ [][SequentialNext]_vars

\* Error handling and cleanup: the instance of the overlapping starts, start() calls
\* in sequence, and onError(e2, 'late') registered at any moment, also while a
\* start() or the onError callables it left running are under way.
ErrorsNext ==
  \/ OnError(1, Fn("e2"), Some("late"))
  \/ SequentialNext

SpecErrors == InitOverlap /\ [][ErrorsNext]_vars

\* Execution order: instance('a') with jobs and onError callables registered under
\* the names 'a' and 'b', in either order; later registrations of jobs or of onError
\* callables under one of the names, with other callables; start() calls in between.
OrderNames == << "a", "b" >>

OrderCallers ==
  { [n \in 1..4 |->
       IF n <= 2
       THEN Registration("jobs", OrderNames[names[n]], << << "j1" >>, << "j2", "j3" >> >>[names[n]])
       ELSE Registration("onErrorFns", OrderNames[names[n - 2]], << << "e1" >>, << "e2" >> >>[names[n - 2]])]
    : names \in { << 1, 2 >>, << 2, 1 >> } }

InitOrder ==
  /\ identifiers = << computeIdentifiers(<< "a" >>, Null) >>
  /\ instances = (identifiersKey(<< "a" >>, Null) :> 1)
  /\ calls = { << << "a" >>, Null, 1 >> }
  /\ options = << DefaultOptions >>
  /\ \E caller \in OrderCallers :
       /\ fns = << FnsAfter(caller) >>
       /\ lastReg = << LastRegAfter(caller) >>
  /\ error = << Null >>
  /\ result = << Null >>
  /\ metadata = << << >> >>
  /\ nRegs = 0
  /\ runs = [r \in 1..MaxOverlap |-> NoRun]
  /\ now = 0
  /\ lastEval = NoEval

OrderNext ==
  \/ \E n \in 1..Len(OrderNames) :
       Quiet(1) /\ Do(1, Array(<< "j4", "j3", "j4" >>), Some(OrderNames[n]))
  \/ \E n \in 1..Len(OrderNames) :
       Quiet(1) /\ OnError(1, Fn("e3"), Some(OrderNames[n]))
  \/ Quiet(1) /\ Start(1)
  \/ \E r \in 1..Len(runs), out \in {"ok", "fail"} : SettleFn(r, out)
  \/ \E r \in 1..Len(runs) : ResumeExecJobs(r)
  \/ \E r \in 1..Len(runs), out \in {"ok", "fail"} : SettleErrorFn(r, out)

SpecOrder == InitOrder /\ [][OrderNext]_vars

\* Registry keys: instance() calls whose identifiers or sub-identifiers contain '/',
\* beside calls with the same characters split otherwise; clearInstances(); a
\* registration through a reference.
KeysArgs ==
  { << << "a", "/", "b" >>, Some(<< << "c" >> >>) >>,
    << << "a" >>, Some(<< << "b", "/", "c" >> >>) >>,
    << << "a" >>, Some(<< << "b" >>, << "c" >> >>) >>,
    << << "a" >>, Some(<< << "c" >> >>) >>,
    << << "a", "/", "b" >>, Null >> }

KeysNext ==
  \/ \E args \in KeysArgs : Instance(args[1], args[2])
  \/ ClearInstances
  \/ \E c \in calls : Do(c[3], Fn("j1"), Null)

SpecKeys == Init /\ [][KeysNext]_vars

\* What compose leaves alone: the caller and the bundle of the composition, compose
\* of either by either (of the caller by itself too), the cleanup option, and
\* start() calls of the caller, which give it a result or an error.
FrameNext ==
  \/ \E i \in Procs : \E b \in Procs : Idle /\ Compose(i, b)
  \/ Quiet(1) /\ SetOptions(1, [deleteFunctionsWhenJobsStarted |-> TRUE])
  \/ ComposeStart

SpecFrame == InitCompose /\ [][FrameNext]_vars

\* The time gate in start(): instance('a') with if(olderThan(1)), a job, an onSuccess
\* callable and an onError callable; start() calls in sequence as time passes. The
\* predicate is the callable "older": it is evaluated when start() calls it, which is
\* one step here with the settlement of await predicateFn(this), no time passing in
\* between. The onSuccess callable does not fail.
GateCaller ==
  << Registration("predicateFns", "defaultPredicate", << "older" >>),
     Registration("jobs", "defaultJobs", << "j1" >>),
     Registration("onSuccessFns", "defaultOnSuccess", << "c1" >>),
     Registration("onErrorFns", "defaultOnError", << "e1" >>) >>

InitGate ==
  /\ identifiers = << computeIdentifiers(<< "a" >>, Null) >>
  /\ instances = (identifiersKey(<< "a" >>, Null) :> 1)
  /\ calls = { << << "a" >>, Null, 1 >> }
  /\ options = << DefaultOptions >>
  /\ fns = << FnsAfter(GateCaller) >>
  /\ lastReg = << LastRegAfter(GateCaller) >>
  /\ error = << Null >>
  /\ result = << Null >>
  /\ metadata = << << >> >>
  /\ nRegs = 0
  /\ runs = [r \in 1..MaxOverlap |-> NoRun]
  /\ now = 0
  /\ lastEval = NoEval

\* await predicateFn(this) of start() r, the predicate being olderThan(seconds,
\* dependencies): the evaluation on the instance, and shouldStart() going on with
\* the value it returned
SettleOlderThan(r, seconds, dependencies) ==
  /\ runs[r].pc = "pred"
  /\ ItFn(runs[r].it) = "older"
  /\ LET run == runs[r]
         i == run.inst
         predicateMetadata == MetaGet(metadata[i], "olderThan")
         ret == OlderThanReturns(i, seconds, dependencies)
         out == IF ret THEN "true" ELSE "false"
         logged == [run EXCEPT !.log = Append(@, Event(out, "predicateFns", "older", Null))]
         it == ItNext(ItMap(i, run.it), run.it)
     IN /\ metadata' = [metadata EXCEPT ![i] =
             IF predicateMetadata = Null
             THEN MetaSet(@, "olderThan" :> [lastDate |-> now, dependencies |-> dependencies])
             ELSE IF hasDependenciesChanged(Get(predicateMetadata).dependencies, dependencies)
             THEN @
             ELSE IF IsDataExpired(now, Get(predicateMetadata).lastDate, seconds)
             THEN MetaSet(@, "olderThan" :> [Get(predicateMetadata) EXCEPT !.lastDate = now])
             ELSE @]
        /\ lastEval' = [inst |-> i, seconds |-> seconds, dependencies |-> dependencies,
                        at |-> now, before |-> predicateMetadata, ret |-> ret]
        /\ runs' = [runs EXCEPT ![r] =
             IF ~ret THEN [logged EXCEPT !.pc = "predRet", !.it = NoIt, !.val = FALSE]
             ELSE IF it.done THEN [logged EXCEPT !.pc = "predRet", !.it = NoIt, !.val = TRUE]
             ELSE [logged EXCEPT !.it = it,
                     !.log = Append(@, Event("call", "predicateFns", ItFn(it), Null))]]
  /\ UNCHANGED << instances, identifiers, calls, now, options, fns, error, result,
                  lastReg, nRegs >>

GateNext ==
  \/ Quiet(1) /\ Tick
  \/ Quiet(1) /\ Start(1)
  \/ \E r \in 1..Len(runs) : SettleOlderThan(r, OlderThanSeconds, << >>)
  \/ \E r \in 1..Len(runs) : ResumeShouldStart(r)
  \/ \E r \in 1..Len(runs), out \in {"ok", "fail"} :
       /\ runs[r].pc = "fn"
       /\ out = "fail" => ItFn(runs[r].it) # "c1"
       /\ SettleFn(r, out)
  \/ \E r \in 1..Len(runs) : ResumeExecJobs(r)
  \/ \E r \in 1..Len(runs), out \in {"ok", "fail"} : SettleErrorFn(r, out)

SpecGate == InitGate /\ [][GateNext]_vars

\* Progress: the overlapping start() calls, every callable a start() awaits settling
\* in the end and every continuation of start() being run once its promise settled.
StepOf(r) ==
  \/ \E out \in {"true", "false", "fail"} : SettlePredicate(r, out)
  \/ ResumeShouldStart(r)
  \/ \E out \in {"ok", "fail"} : SettleFn(r, out)
  \/ ResumeExecJobs(r)

SpecProgress == SpecOverlap /\ \A r \in 1..2 : WF_vars(StepOf(r))

\* Sub-paths: instance('a', subIdentifiers) with no list, an empty list, lists of
\* empty strings and lists with empty strings among the others; clearInstances(); a
\* registration through a reference.
SubPathArgs ==
  { Null,
    Some(<< >>),
    Some(<< EmptyStr, EmptyStr >>),
    Some(<< << "b" >> >>),
    Some(<< EmptyStr, << "b" >>, EmptyStr >>),
    Some(<< << "b" >>, EmptyStr, << "c" >> >>) }

SubPathNext ==
  \/ \E subIdentifiers \in SubPathArgs : Instance(<< "a" >>, subIdentifiers)
  \/ ClearInstances
  \/ \E c \in calls : Do(c[3], Fn("j1"), Null)

SpecSubPath == Init /\ [][SubPathNext]_vars

\* Two loggers: compose(withLogs(l1)) and compose(withLogs(l2, 'n2')) applied once
\* each, in either order, then start() calls. The composer applied second is the one
\* not applied first, which is l1 when instance('a', ['n2']) was asked for.
ComposedSecond ==
  IF \E c \in calls : c[2] = Some(<< Chars("n2") >>) THEN << "l1", Null >> ELSE << "l2", Some("n2") >>

LogsOrderNext ==
  \/ nRegs = 0 /\ \E c \in Composers : WithLogs(1, c[1], c[2])
  \/ nRegs = 1 /\ WithLogs(1, ComposedSecond[1], ComposedSecond[2])
  \/ nRegs = 2 /\ Quiet(1) /\ Start(1)
  \/ LogsStart

SpecLogsOrder == InitLogs /\ [][LogsOrderNext]_vars

\* ------------------------------------------------------------------ history

\* the callables of a slot-map in execution order
RECURSIVE Flatten(_)
Flatten(map) ==
  IF map = << >> THEN << >>
  ELSE Flatten(SubSeq(map, 1, Len(map) - 1)) \o map[Len(map)].fns

\* the callables a start() called for the given roles, in call order
CalledFns(run, roles) ==
  LET events == SelectSeq(run.log, LAMBDA e : e.ev = "call" /\ e.role \in roles)
  IN [n \in 1..Len(events) |-> events[n].fn]

MainRoles == {"onStartFns", "jobs", "onSuccessFns"}

\* a predicate, onStart, job or onSuccess callable of the start() failed
Failed(run) == \E n \in 1..Len(run.log) : run.log[n].ev = "fail" /\ run.log[n].role # "onErrorFns"

\* a predicate of the start() resolved to false
Skipped(run) == \E n \in 1..Len(run.log) : run.log[n].ev = "false"

IsPrefix(s, t) == Len(s) <= Len(t) /\ s = SubSeq(t, 1, Len(s))

Settled(run) == run.pc \in {"resolved", "rejected"}

Started == { r \in 1..Len(runs) : runs[r].pc # "idle" }

\* ------------------------------------------------------------------- claims

\* C1. Between two clearInstances(), instance() calls with equal identities (the same
\* primary identifier and the same '/'-joined sub-identifier path) return the same
\* instance, the registry holds at most one instance per identity, and what is
\* registered through one returned reference is read through the other.
C1_SingletonPerIdentity ==
  /\ \A c1, c2 \in calls :
       computeIdentifiers(c1[1], c1[2]) = computeIdentifiers(c2[1], c2[2])
       => /\ c1[3] = c2[3]
          /\ fns[c1[3]] = fns[c2[3]]
  /\ \A k1, k2 \in DOMAIN instances :
       identifiers[instances[k1]] = identifiers[instances[k2]] => k1 = k2

\* two calls with different argument lists and one identity were answered, another
\* identity got another instance, and a job was registered through the reference
C1_Witness ==
  /\ \E c1, c2 \in calls :
       /\ c1 # c2
       /\ computeIdentifiers(c1[1], c1[2]) = computeIdentifiers(c2[1], c2[2])
       /\ fns[c1[3]].jobs # EmptyMap
  /\ Cardinality(DOMAIN instances) > 1

\* C8. After any sequence of do / if / onStart / onSuccess / onError calls, each
\* slot-map has exactly one entry per registration name used for its role, and the
\* entry of a name holds, once each, the callables of the latest registration under
\* that name.
C8_RegistrationsHeld ==
  \A i \in Procs, role \in Roles :
    LET map == fns[i][role]
        last == lastReg[i][role]
    IN /\ \A m, n \in 1..Len(map) : map[m].name = map[n].name => m = n
       /\ { map[n].name : n \in 1..Len(map) } = DOMAIN last
       /\ \A n \in 1..Len(map) :
            LET set == map[n].fns
                passed == last[map[n].name]
            IN /\ \A j, k \in 1..Len(set) : set[j] = set[k] => j = k
               /\ { set[j] : j \in 1..Len(set) } = { passed[j] : j \in 1..Len(passed) }

\* a name was registered again with other callables beside another name of the
\* role, and an array with a repeated callable was registered
C8_Witness ==
  \E i \in Procs, role \in Roles :
    /\ Len(fns[i][role]) = 2
    /\ nRegs = 3
    /\ \E n \in 1..2 : fns[i][role][n].fns = << "f2", "f1" >>

\* the callable of a role failed in the start()
FailedIn(run, roles) ==
  \E n \in 1..Len(run.log) : run.log[n].ev = "fail" /\ run.log[n].role \in roles

\* the place of a role in the full branch of start()
Rank(role) ==
  CASE role = "predicateFns" -> 0
    [] role = "onStartFns" -> 1
    [] role = "jobs" -> 2
    [] role = "onSuccessFns" -> 3
    [] role = "onErrorFns" -> 4

\* the callables the start() was to execute on the full branch, in order
FullBranch(run) ==
  Flatten(run.at.onStartFns) \o Flatten(run.at.jobs) \o Flatten(run.at.onSuccessFns)

\* C2. The promise of start() is never rejected: whichever predicate, onStart, job,
\* onSuccess or onError callable fails, it resolves, and it resolves with the instance
\* start() was called on.
C2_StartNeverRejects ==
  \A r \in Started :
    /\ runs[r].pc # "rejected"
    /\ runs[r].pc = "resolved" => runs[r].value = Some(runs[r].inst)

\* a start() resolved although a callable failed and then an onError callable failed
C2_Witness ==
  \E r \in Started :
    /\ runs[r].pc = "resolved"
    /\ FailedIn(runs[r], MainRoles \cup {"predicateFns"})
    /\ FailedIn(runs[r], {"onErrorFns"})
    /\ runs[r].value = Some(runs[r].inst)

\* C3. Without a skip and without a failure, start() executes the onStart callables,
\* then the jobs, then the onSuccess callables, each role in registration order (names
\* in the order first registered, callables of a name in insertion order), and no
\* callable is called before the promise of the one called before it has settled.
C3_SequentialOrder ==
  \A r \in Started :
    LET run == runs[r]
        log == run.log
    IN /\ \A n \in 1..Len(log) :
            IF n % 2 = 1
            THEN log[n].ev = "call"
            ELSE /\ log[n].ev # "call"
                 /\ log[n].fn = log[n - 1].fn
                 /\ log[n].role = log[n - 1].role
       /\ \A m, n \in 1..Len(log) : m < n => Rank(log[m].role) <= Rank(log[n].role)
       /\ (~Skipped(run) /\ ~run.cleared)
            => /\ IsPrefix(CalledFns(run, MainRoles), FullBranch(run))
               /\ (run.pc = "resolved" /\ ~Failed(run))
                    => CalledFns(run, MainRoles) = FullBranch(run)

\* a start() went through an onStart callable, two jobs and two onSuccess callables
C3_Witness ==
  \E r \in Started :
    /\ runs[r].pc = "resolved"
    /\ ~Failed(runs[r])
    /\ ~Skipped(runs[r])
    /\ CalledFns(runs[r], MainRoles) = << "s1", "j1", "j2", "c1", "c2" >>

\* the events of the start() after its n-th
After(run, n) == SubSeq(run.log, n + 1, Len(run.log))

\* the error handling of the start() has ended: _execAsyncErrorFns returned or threw
ErrorsEnded(run) == run.epc \in {"done", "rejected"}

\* what a failure of an onStart, job or onSuccess callable does to the rest of the
\* start(), the execution of the onError callables aside
FailureAborts(run) ==
  \A n \in 1..Len(run.log) :
    (run.log[n].ev = "fail" /\ run.log[n].role \in MainRoles)
    => /\ \A m \in (n + 1)..Len(run.log) : run.log[m].role = "onErrorFns"
       /\ run.log[n].role \in {"onStartFns", "jobs"} => CalledFns(run, {"onSuccessFns"}) = << >>
       /\ run.pc = "resolved" => run.out.result = Null /\ run.epc # "none"
       /\ IsPrefix(CalledFns(run, {"onErrorFns"}), Flatten(run.errFns))
       /\ run.epc # "none" => (run.errFns = run.at.onErrorFns \/ run.cleared)

\* C4. When an onStart, job or onSuccess callable fails, no further callable of these
\* roles is called (no onSuccess callable at all if the failure was in onStart or in
\* the jobs), the result is null when start() resolves, and the onError callables are
\* called in registration order up to the first of them that itself fails: all of
\* them when none fails.
C4_FailureAborts ==
  \A r \in Started :
    LET run == runs[r]
    IN /\ FailureAborts(run)
       /\ (FailedIn(run, MainRoles) /\ ErrorsEnded(run))
            => \/ CalledFns(run, {"onErrorFns"}) = Flatten(run.errFns)
               \/ /\ run.epc = "rejected"
                  /\ run.log[Len(run.log)].ev = "fail"
                  /\ run.log[Len(run.log)].role = "onErrorFns"

\* a job failed after an onStart callable, and both onError callables were called
C4_Witness ==
  \E r \in Started :
    /\ runs[r].pc = "resolved"
    /\ runs[r].epc = "done"
    /\ FailedIn(runs[r], {"jobs"})
    /\ CalledFns(runs[r], MainRoles) = << "s1", "j1" >>
    /\ CalledFns(runs[r], {"onErrorFns"}) = << "e1", "e2" >>

\* C4 as stated: after the failure the onError callables are run, all of them
C4_AllOnErrorRun ==
  \A r \in Started :
    LET run == runs[r]
    IN /\ FailureAborts(run)
       /\ (FailedIn(run, MainRoles) /\ ErrorsEnded(run))
            => CalledFns(run, {"onErrorFns"}) = Flatten(run.errFns)

\* C5. The value a callable fails with is kept as it is, Error or not: it is the
\* error of the instance when start() resolves, and it is the argument of every
\* onError callable called.
C5_ErrorUnchanged ==
  \A r \in Started :
    LET run == runs[r]
    IN \A n \in 1..Len(run.log) :
         (run.log[n].ev = "fail" /\ run.log[n].role # "onErrorFns")
         => /\ run.pc = "resolved" => run.out.error = run.log[n].arg
            /\ run.log[n].arg = Some(Throws(run.log[n].fn))
            /\ \A m \in 1..Len(run.log) :
                 (run.log[m].ev = "call" /\ run.log[m].role = "onErrorFns")
                 => run.log[m].arg = run.log[n].arg

\* a callable failed with a value that is no Error and two onError callables got it
C5_Witness ==
  \E r \in Started :
    /\ runs[r].pc = "resolved"
    /\ \E n \in 1..Len(runs[r].log) :
         /\ runs[r].log[n].ev = "fail"
         /\ runs[r].log[n].role # "onErrorFns"
         /\ Get(runs[r].log[n].arg).kind # "Error"
         /\ runs[r].out.error = runs[r].log[n].arg
    /\ Len(CalledFns(runs[r], {"onErrorFns"})) = 2

\* what a predicate resolving to false does to the start(), the onError callables aside
SkipRunsOnSuccessOnly(run) ==
  Skipped(run)
  => /\ CalledFns(run, {"onStartFns", "jobs"}) = << >>
     /\ ~FailedIn(run, {"predicateFns"})
     /\ ~run.cleared => IsPrefix(CalledFns(run, {"onSuccessFns"}), Flatten(run.at.onSuccessFns))
     /\ (run.pc = "resolved" /\ ~run.cleared /\ ~Failed(run))
          => CalledFns(run, {"onSuccessFns"}) = Flatten(run.at.onSuccessFns)

\* C6. When a predicate resolves to false, no onStart callable and no job is called,
\* the onSuccess callables are still called, in order, and an onError callable is
\* called only if an onSuccess callable failed.
C6_SkipRunsOnSuccess ==
  \A r \in Started :
    /\ SkipRunsOnSuccessOnly(runs[r])
    /\ (Skipped(runs[r]) /\ CalledFns(runs[r], {"onErrorFns"}) # << >>)
         => FailedIn(runs[r], {"onSuccessFns"})

\* a skipped start() called both onSuccess callables and nothing else
C6_Witness ==
  \E r \in Started :
    /\ runs[r].pc = "resolved"
    /\ Skipped(runs[r])
    /\ runs[r].at.jobs # EmptyMap
    /\ CalledFns(runs[r], Roles \ {"predicateFns"}) = << "c1", "c2" >>

\* C6 as stated: when a predicate resolves to false, no onError callable is ever called
C6_NoOnErrorOnSkip ==
  \A r \in Started :
    /\ SkipRunsOnSuccessOnly(runs[r])
    /\ Skipped(runs[r]) => CalledFns(runs[r], {"onErrorFns"}) = << >>

\* C7. The predicates are evaluated before anything else, one at a time, in
\* registration order; the evaluation ends with the first that resolves to false (or
\* fails), the full branch is taken only once all of them resolved to true, and with
\* no predicate registered it is always taken.
C7_PredicatesFirst ==
  \A r \in Started :
    LET run == runs[r]
        log == run.log
        preds == CalledFns(run, {"predicateFns"})
    IN /\ \A m, n \in 1..Len(log) :
            (m < n /\ log[n].role = "predicateFns") => log[m].role = "predicateFns"
       /\ IsPrefix(preds, Flatten(run.at.predicateFns))
       /\ \A n \in 1..Len(log) :
            log[n].role = "predicateFns"
            => /\ log[n].ev = "call" => (n = 1 \/ log[n - 1].ev = "true")
               /\ log[n].ev \in {"false", "fail"}
                    => \A m \in (n + 1)..Len(log) : log[m].role # "predicateFns"
       /\ (run.ph \in {"onStart", "jobs", "onSuccess"} \/ CalledFns(run, {"onStartFns", "jobs"}) # << >>)
            => /\ preds = Flatten(run.at.predicateFns)
               /\ \A n \in 1..Len(log) : log[n].role = "predicateFns" => log[n].ev \in {"call", "true"}
       /\ run.at.predicateFns = EmptyMap
            => preds = << >> /\ run.ph # "skip" /\ run.pc \notin {"pred", "predRet"}

\* the predicates of two names were evaluated in order up to the one that resolved
\* to false, the last one was left out and the start() was skipped
C7_Witness ==
  \E r \in Started :
    /\ runs[r].pc = "resolved"
    /\ Len(runs[r].at.predicateFns) = 2
    /\ CalledFns(runs[r], {"predicateFns"}) = << "p1", "p2" >>
    /\ Skipped(runs[r])

\* C9. With deleteFunctionsWhenJobsStarted true, the five slot-maps of the instance
\* are empty when start() resolves, whatever the outcome: success, skip by a false
\* predicate, failure of a predicate or of a callable.
C9_DeleteClearsAll ==
  \A r \in Started :
    (runs[r].pc = "resolved" /\ runs[r].out.deleted)
    => \A role \in Roles : runs[r].out.fns[role] = EmptyMap

\* a start() with callables of three roles failed and left the slot-maps empty
C9_Witness ==
  \E r \in Started :
    /\ runs[r].pc = "resolved"
    /\ runs[r].out.deleted
    /\ Failed(runs[r])
    /\ Cardinality({ role \in Roles : runs[r].at[role] # EmptyMap }) >= 2
    /\ runs[r].out.fns = EmptyFns

\* C10. With deleteFunctionsWhenJobsStarted false, the five slot-maps are when start()
\* resolves what they were when it was called, whatever the outcome, and a later
\* start() that finds them so executes their callables again, role by role.
C10_FunctionsKept ==
  \A r \in Started :
    LET run == runs[r]
    IN /\ (run.pc = "resolved" /\ ~run.out.deleted) => run.out.fns = run.at
       /\ (run.again /\ run.pc = "resolved" /\ ~run.cleared /\ ~Failed(run))
            => IF Skipped(run)
               THEN CalledFns(run, MainRoles) = Flatten(run.at.onSuccessFns)
               ELSE CalledFns(run, MainRoles) = FullBranch(run)

\* an earlier start() left the callables registered and this one executed them again
C10_Witness ==
  \E r \in Started :
    /\ runs[r].pc = "resolved"
    /\ runs[r].again
    /\ ~runs[r].out.deleted
    /\ runs[r].out.fns = runs[r].at
    /\ CalledFns(runs[r], MainRoles) = << "j1", "j2", "c1", "c2" >>

\* the values the jobs of the start() returned, null and undefined left out, in
\* execution order
JobValues(run) ==
  LET oks == SelectSeq(run.log, LAMBDA e : e.ev = "ok" /\ e.role = "jobs" /\ Returns(e.fn) # Null)
  IN [n \in 1..Len(oks) |-> Get(Returns(oks[n].fn))]

\* res is the aggregate of vals: nothing for no value; the last value if it is no
\* mapping; else the mapping of the keys of the mappings that follow the last
\* non-mapping, each key with the value of the last mapping that has it
IsAggregate(res, vals) ==
  LET scalars == { n \in 1..Len(vals) : ~vals[n].obj }
      s == IF scalars = {} THEN 0 ELSE CHOOSE n \in scalars : \A m \in scalars : m <= n
      keys == UNION { DOMAIN vals[n].kv : n \in (s + 1)..Len(vals) }
  IN IF vals = << >> THEN res = Null
     ELSE IF s = Len(vals) THEN res = Some(vals[s])
     ELSE /\ res # Null
          /\ Get(res).obj
          /\ DOMAIN Get(res).kv = keys
          /\ \A k \in keys :
               \E n \in (s + 1)..Len(vals) :
                 /\ k \in DOMAIN vals[n].kv
                 /\ \A m \in (n + 1)..Len(vals) : k \notin DOMAIN vals[m].kv
                 /\ Get(res).kv[k] = vals[n].kv[k]

\* the start() took the full branch and resolved without a failure
Succeeded(run) == run.pc = "resolved" /\ ~Failed(run) /\ ~Skipped(run) /\ ~run.cleared

IsListOf(res, items) ==
  /\ res # Null
  /\ "items" \in DOMAIN Get(res)
  /\ Get(res).items = items

\* the jobs of the start() were registered by one do() call with several callables
SeveralJobs(run) == Len(run.at.jobs) = 1 /\ Len(run.at.jobs[1].fns) >= 2

\* what the jobs registered return, null and undefined left out, in registration order
RegisteredValues(run) ==
  LET fs == SelectSeq(Flatten(run.at.jobs), LAMBDA fn : Returns(fn) # Null)
  IN [n \in 1..Len(fs) |-> Get(Returns(fs[n]))]

C13_ErrorsBeforeResolve ==
  \A r \in Started :
    LET run == runs[r]
    IN (run.pc = "resolved" /\ Failed(run) /\ ~FailedIn(run, {"onErrorFns"}))
       => /\ run.epc = "done"
          /\ CalledFns(run, {"onErrorFns"}) = Flatten(run.errFns)
          /\ \A n \in 1..Len(run.log) :
               (run.log[n].ev = "call" /\ run.log[n].role = "onErrorFns")
               => run.log[n].arg = run.out.error

\* the start() is in progress and has not come to the end of its jobs: it is at a
\* predicate, an onStart callable or a job, or about to resume after them
BeforeResult(run) ==
  /\ run.pc \in {"pred", "predRet", "fn", "ret"}
  /\ run.ph \in {"none", "onStart", "jobs"}

C15_MetadataUntouched ==
  [][MetaCore => \A i \in Procs : metadata'[i] = metadata[i]]_vars

\* the bundle holds a gate state, and the caller has composed it, started with the
\* cleanup option set, and ended: its functions are gone, the metadata are there
C15_Witness ==
  /\ MetaGet(metadata[2], "olderThan") # Null
  /\ metadata[1] = << >>
  /\ options[1].deleteFunctionsWhenJobsStarted
  /\ \E r \in Started :
       /\ runs[r].inst = 1
       /\ runs[r].pc = "resolved"
       /\ runs[r].out.deleted
       /\ "s5" \in { runs[r].log[n].fn : n \in 1..Len(runs[r].log) }
  /\ fns[1] = EmptyFns

\* ----------------------------------------------------------------------- C16

MapNames(map) == { map[n].name : n \in 1..Len(map) }

\* compose(i, b) left in the slot-maps of i, for the four composed roles: under a name
\* of b the callables of b, under a name of i alone the callables it had, and no
\* other name
ComposeMerged(i, b) ==
  \A role \in ComposedRoles :
    /\ MapNames(fns'[i][role]) = MapNames(fns[i][role]) \cup MapNames(fns[b][role])
    /\ \A name \in MapNames(fns[b][role]) :
         MapGet(fns'[i][role], name) = MapGet(fns[b][role], name)
    /\ \A name \in MapNames(fns[i][role]) \ MapNames(fns[b][role]) :
         MapGet(fns'[i][role], name) = MapGet(fns[i][role], name)

\* a start() that went through all its phases called every callable the slot-maps
\* held when it began
RunsAllHeld ==
  \A r \in Started :
    (runs[r].pc = "resolved" /\ ~Failed(runs[r]) /\ ~Skipped(runs[r]) /\ ~runs[r].cleared)
      => \A role \in MainRoles :
           CalledFns(runs[r], {role}) = Flatten(runs[r].at[role])

\* C16: compose merges by registration name for jobs, onStart, onSuccess and
\* onError (a name of both is overwritten by the bundle's callables, a name of the
\* bundle alone is added, a name of the caller alone keeps its callables), and a
\* later start() of the caller begins with the merged slot-maps and calls all of them.
C16_ComposeMergesByName ==
  [][ /\ \A i \in Procs : \A b \in Procs \ {i} : Compose(i, b) => ComposeMerged(i, b)
      /\ \A i \in Procs : Start(i) =>
            \E r \in 1..Len(runs) :
              runs[r] # runs'[r] /\ runs'[r].inst = i /\ runs'[r].at = fns[i]
      /\ RunsAllHeld' ]_vars

\* the caller held onStart callables under "n" and the default name, the bundle
\* under "n" and "m": after the compose "n" holds the bundle's callables, and a
\* start() of the caller called s3, s4 (overwritten), s2 (kept), s5 (added) and j1
C16_Witness ==
  /\ MapHas(fns[1].onStartFns, "n")
  /\ MapGet(fns[1].onStartFns, "n") = << "s3", "s4" >>
  /\ fns[2] = FnsAfter(<< Registration("onStartFns", "m", << "s5" >>),
                          Registration("onStartFns", "n", << "s3", "s4" >>),
                          Registration("onErrorFns", "defaultOnError", << "e1" >>) >>)
  /\ \E r \in Started :
       /\ runs[r].inst = 1
       /\ runs[r].pc = "resolved"
       /\ CalledFns(runs[r], MainRoles) = << "s3", "s4", "s2", "s5", "j1" >>

\* ----------------------------------------------------------------------- C17

\* the instances the registry does not hold
Unregistered == { i \in Procs : \A key \in DOMAIN instances : instances[key] # i }

\* the fields of the instances that exist are left as they are
InstancesKept ==
  \A i \in Procs :
    /\ identifiers'[i] = identifiers[i]
    /\ fns'[i] = fns[i]
    /\ options'[i] = options[i]
    /\ metadata'[i] = metadata[i]
    /\ result'[i] = result[i]
    /\ error'[i] = error[i]

\* instance(identifier, subIdentifiers) answered with a new object: it is none of
\* the objects made before and its fields have their initial values
NewInstance(identifier, subIdentifiers) ==
  LET n == instances'[identifiersKey(identifier, subIdentifiers)]
  IN /\ n \notin Procs
     /\ << identifier, subIdentifiers, n >> \in calls'
     /\ identifiers'[n] = computeIdentifiers(identifier, subIdentifiers)
     /\ fns'[n] = EmptyFns
     /\ options'[n] = DefaultOptions
     /\ metadata'[n] = << >>
     /\ result'[n] = Null
     /\ error'[n] = Null

\* C17: clearInstances() empties the registry and changes no instance; the next
\* instance() call for any identity then returns a new instance with empty
\* slot-maps, default options, empty metadata and null result and error, the
\* instances made before keeping their fields; an instance the registry no longer
\* holds can be started.
C17_ClearInstances ==
  [][ /\ ClearInstances => (instances' = << >> /\ runs' = runs /\ InstancesKept)
      /\ \A args \in ClearArgs :
            (instances = << >> /\ Instance(args[1], args[2]))
              => (NewInstance(args[1], args[2]) /\ InstancesKept)
      /\ \A i \in Unregistered :
            (Quiet(i) /\ \E r \in 1..Len(runs) : Free(r)) => ENABLED Start(i) ]_vars

\* after a clear, the identity of instance 1 was given a new instance with initial
\* fields; instance 1 kept its job, option and metadata, and a start() of it (begun
\* after the clear, which is made while no start() is under way) has called the job
C17_Witness ==
  /\ Len(identifiers) >= 2
  /\ 1 \in Unregistered
  /\ \E n \in Procs \ Unregistered :
       /\ identifiers[n] = identifiers[1]
       /\ fns[n] = EmptyFns
       /\ options[n] = DefaultOptions
       /\ metadata[n] = << >>
  /\ fns[1].jobs # EmptyMap
  /\ options[1].deleteFunctionsWhenJobsStarted
  /\ MetaGet(metadata[1], "olderThan") # Null
  /\ \E r \in Started :
       /\ runs[r].inst = 1
       /\ InFlight(r)
       /\ CalledFns(runs[r], {"jobs"}) = << "j1" >>

\* ----------------------------------------------------------------------- C18

\* the predicates that resolved to true in a start()
ResolvedTrue(run) ==
  { run.log[n].fn : n \in { m \in 1..Len(run.log) :
                             run.log[m].ev = "true" /\ run.log[m].role = "predicateFns" } }

JobsRan(run) == CalledFns(run, {"jobs"}) # << >>

Gate(i) == MetaGet(metadata[i], "olderThan")
GateAfter(i) == MetaGet(metadata'[i], "olderThan")

\* C19: an evaluation of olderThan(seconds) with no dependencies on an instance
\* without recorded time returns true and records the current time; one made when
\* the time elapsed since the recorded time does not exceed the threshold returns
\* false and leaves the recorded time; one made after the threshold has elapsed
\* returns true and sets the recorded time to the current time.
C19_OlderThanGate ==
  [][ \A i \in Procs :
        (OlderThan(i, OlderThanSeconds, << >>) /\ lastEval'.inst = i) =>
          /\ \A j \in Procs \ {i} : metadata'[j] = metadata[j]
          /\ IF Gate(i) = Null
             THEN lastEval'.ret /\ Get(GateAfter(i)).lastDate = now
             ELSE IF now - Get(Gate(i)).lastDate <= OlderThanSeconds * 1000
             THEN ~lastEval'.ret /\ GateAfter(i) = Gate(i)
             ELSE lastEval'.ret /\ Get(GateAfter(i)).lastDate = now ]_vars

\* an instance with a recorded time was evaluated more than a second later: true,
\* the recorded time now the time of that evaluation
C19_Witness ==
  /\ lastEval.inst \in Procs
  /\ lastEval.before # Null
  /\ lastEval.at - Get(lastEval.before).lastDate > OlderThanSeconds * 1000
  /\ lastEval.ret
  /\ Gate(lastEval.inst) # Null
  /\ Get(Gate(lastEval.inst)).lastDate = lastEval.at

\* ----------------------------------------------------------------------- C20

\* C20: cancelOlderThanDelay(identifier, subIdentifiers) leaves the instance of that
\* identity without gate state and the metadata of every other instance as they
\* were (an identity the registry does not hold gets a new instance, without gate
\* state); the next evaluation on an instance without gate state returns true and
\* records the time, whatever time has passed.
C20_CancelDeletesGate ==
  [][ /\ \A args \in ClearArgs :
            CancelOlderThanDelay(args[1], args[2]) =>
              LET i == instances'[identifiersKey(args[1], args[2])]
              IN /\ identifiers'[i] = computeIdentifiers(args[1], args[2])
                 /\ GateAfter(i) = Null
                 /\ \A j \in Procs \ {i} : metadata'[j] = metadata[j]
      /\ \A i \in Procs :
            (Gate(i) = Null /\ OlderThan(i, OlderThanSeconds, << >>) /\ lastEval'.inst = i)
              => (lastEval'.ret /\ GateAfter(i) # Null /\ Get(GateAfter(i)).lastDate = now) ]_vars

\* the gate of the instance last evaluated was cancelled within the delay (it has
\* no gate state, which an evaluation never leaves), the instance of the same
\* primary identifier and other sub-identifiers still has its gate state
C20_Witness ==
  /\ lastEval.inst \in Procs
  /\ lastEval.at = now
  /\ Gate(lastEval.inst) = Null
  /\ \E j \in Procs \ {lastEval.inst} :
       /\ Gate(j) # Null
       /\ identifiers[j][1] = identifiers[lastEval.inst][1]

\* ----------------------------------------------------------------------- C21

\* C21: an evaluation of olderThan whose dependencies differ from those of the
\* record returns true, and an evaluation whose dependencies are those of the
\* previous evaluation on the instance, made within the threshold of the recorded
\* time, returns false.
C21_SameDependenciesGated ==
  [][ \A i \in Procs : \A dependencies \in OlderThanDependencies :
        (OlderThan(i, OlderThanSeconds, dependencies) /\ lastEval'.inst = i
           /\ lastEval'.dependencies = dependencies /\ Gate(i) # Null) =>
          /\ Get(Gate(i)).dependencies # dependencies => lastEval'.ret
          /\ (lastEval.inst = i /\ lastEval.dependencies = dependencies
                /\ now - Get(Gate(i)).lastDate <= OlderThanSeconds * 1000)
               => ~lastEval'.ret ]_vars

\* ----------------------------------------------------------------------- C22

\* the calls of a logger in a start(), in order: the message, and the error given
\* with it
LoggerCalls(run, logger) ==
  LET events == SelectSeq(run.log, LAMBDA e :
                  e.ev = "call" /\ e.fn \in { LogFn(logger, event) : event \in LogEvents })
  IN [n \in 1..Len(events) |->
        [message |-> CHOOSE event \in LogEvents : LogFn(logger, event) = events[n].fn,
         err |-> events[n].arg]]

Line(message, err) == [message |-> message, err |-> err]

\* start() calls of an instance with the default options that held the callbacks of
\* withLogs(l1) when they began, now settled with their error handling ended
LoggedRuns ==
  { r \in Started :
      /\ runs[r].pc = "resolved"
      /\ runs[r].epc # "fn"
      /\ ~runs[r].out.deleted
      /\ MapHas(runs[r].at.onStartFns, WithLogsKey)
      /\ MapGet(runs[r].at.onStartFns, WithLogsKey) = << LogFn("l1", "Start") >> }

PredicateFailed(run) ==
  \E n \in 1..Len(run.log) : run.log[n].ev = "fail" /\ run.log[n].role = "predicateFns"

\* the instance held nothing but jobs and callbacks of loggers when the start() began
OnlyJobsAndLogs(run) ==
  /\ run.at.predicateFns = EmptyMap
  /\ \A role \in {"onStartFns", "onSuccessFns", "onErrorFns"} :
       \A n \in 1..Len(run.at[role]) :
         \A k \in 1..Len(run.at[role][n].fns) : run.at[role][n].fns[k] \in LogFns

EntriesOf(map, name) == { n \in 1..Len(map) : map[n].name = name }

\* the name a composer of the model is applied under
ComposerName(c) == IF c[2] = Null THEN WithLogsKey ELSE Get(c[2])

\* withLogs asked for the instance of the sub-identifier name: it was applied under
\* that name and did not return early
Registered(name) == \E c \in calls : c[2] = Some(<< Chars(name) >>)

\* C23: after compose(withLogs(logger, name)), applied for the first time or again
\* on an instance that withLogs was applied to under no other name, the instance
\* holds one onStart, one onSuccess and one onError entry under the name, each with
\* one callback.
C23_OneEntryPerName ==
  [][ \A c \in Composers :
        (WithLogs(1, c[1], c[2]) /\ \A d \in Composers \ {c} : ~Registered(ComposerName(d))) =>
          LET name == ComposerName(c)
          IN \A event \in LogEvents :
               /\ Cardinality(EntriesOf(fns'[1][LogRole(event)], name)) = 1
               /\ Len(MapGet(fns'[1][LogRole(event)], name)) = 1 ]_vars

\* ----------------------------------------------------------------------- C24

\* C24: after compose(withLogs(l1)) and compose(withLogs(l2, 'n2')), in either
\* order, a start() in which nothing fails and that no predicate skips calls each of
\* l1 and l2 exactly twice.
C24_EachLoggerTwice ==
  \A r \in Started :
    (runs[r].pc = "resolved" /\ ~Failed(runs[r]) /\ ~Skipped(runs[r]))
      => \A logger \in Loggers : Len(LoggerCalls(runs[r], logger)) = 2

\* ----------------------------------------------------------------------- C25

\* the start() calls of the instance that are between their entry and their settlement
Running(i) == { r \in 1..Len(runs) : runs[r].inst = i /\ InFlight(r) }

\* C25: start() is not refused or delayed while another start() of the instance is
\* suspended on an awaited callable: it can be called then, it leaves the suspended
\* start() where it is and proceeds to its own first callable (the predicate, if the
\* instance still holds it), so that both are between entry and settlement.
C25_StartsOverlap ==
  [][ /\ (Running(1) # {} /\ \E r \in 1..Len(runs) : Unstarted(r)) => ENABLED Start(1)
      /\ (Running(1) # {} /\ Start(1)) =>
            /\ \A q \in Running(1) : runs'[q] = runs[q]
            /\ \E r \in 1..Len(runs) \ Running(1) :
                 /\ runs'[r].over
                 /\ runs'[r].inst = 1
                 /\ runs'[r].at = fns[1]
                 /\ fns[1].predicateFns # EmptyMap =>
                      /\ runs'[r].pc = "pred"
                      /\ runs'[r].log = << Event("call", "predicateFns", "p1", Null) >> ]_vars

\* two start() calls of the instance are under way, each suspended on a callable it
\* called, the first one on its job after the second one called its predicate
C25_Witness ==
  /\ Running(1) = {1, 2}
  /\ runs[2].over
  /\ runs[1].pc = "fn" /\ runs[1].ph = "jobs"
  /\ runs[2].pc = "fn" /\ runs[2].ph = "onStart"

\* ----------------------------------------------------------------------- C26

\* the values the predicates of the start() failed with
PredicateErrors(run) ==
  { run.log[n].arg : n \in { m \in 1..Len(run.log) :
                               run.log[m].ev = "fail" /\ run.log[m].role = "predicateFns" } }

C27_NotBoth ==
  /\ (\A r \in 1..Len(runs) : ~InFlight(r)) => (result[1] = Null \/ error[1] = Null)
  /\ \A r \in Started :
       LET run == runs[r]
       IN run.pc = "resolved" =>
            /\ ~run.over
            /\ run.out.result = Null \/ run.out.error = Null
            /\ Failed(run) => (run.out.result = Null /\ run.out.error # Null)
            /\ ~Failed(run) => run.out.error = Null

\* a start() in which nothing failed settled with a result and a null error while
\* the onError callable of the failed start() before it was still running
C27_Witness ==
  /\ runs[1].pc = "resolved" /\ Failed(runs[1]) /\ runs[1].epc = "fn"
  /\ runs[1].out.error # Null
  /\ runs[2].pc = "resolved" /\ ~Failed(runs[2]) /\ ~Skipped(runs[2])
  /\ runs[2].out.result # Null
  /\ error[1] = Null /\ result[1] # Null

\* ----------------------------------------------------------------------- C28

\* the value the start() failed with
FailureOf(run) ==
  run.log[CHOOSE n \in 1..Len(run.log) :
            run.log[n].ev = "fail" /\ run.log[n].role # "onErrorFns"].arg

\* C28: when a start() settles after a start() it overlapped with and none is left
\* between entry and settlement, the result and the error of the instance are those
\* of this start(): a null error and the aggregate of its jobs if it ran its jobs
\* without a failure, a null result and the value it failed with if it failed.
C28_LastSettledWins ==
  [][ \A r \in 1..Len(runs) :
        ( /\ runs[r].pc # "resolved"
          /\ runs'[r].pc = "resolved"
          /\ \A q \in 1..Len(runs) : runs'[q].pc \in {"idle", "resolved", "rejected"}
          /\ \E q \in 1..Len(runs) : runs'[q].over )
        => LET run == runs'[r]
           IN /\ Failed(run) => (result'[1] = Null /\ error'[1] = FailureOf(run))
              /\ (~Failed(run) /\ JobsRan(run)) =>
                    /\ error'[1] = Null
                    /\ IsAggregate(result'[1], JobValues(run)) ]_vars

\* ----------------------------------------------------------------------- C29

\* C29: a start() that no predicate skips and in which nothing fails calls every job
\* the instance held when it was called, in order, whatever other start() calls of
\* the instance do meanwhile.
C29_AllJobsInvoked ==
  \A r \in Started :
    LET run == runs[r]
    IN (run.pc = "resolved" /\ ~Failed(run) /\ ~Skipped(run))
         => CalledFns(run, {"jobs"}) = Flatten(run.at.jobs)

\* ----------------------------------------------------------------------- C30

\* the events of the start() in which an onError callable failed
OnErrorFailures(run) ==
  { n \in 1..Len(run.log) : run.log[n].ev = "fail" /\ run.log[n].role = "onErrorFns" }

\* C30: when an onError callable throws or rejects, the promise of start() is
\* resolved with the instance all the same; the error of the instance is the value
\* of the failure that was being handled, not what the onError callable threw; no
\* onError callable after the failing one is called; and the cleanup was done as the
\* option asks.
C30_OnErrorFailure ==
  \A r \in Started :
    LET run == runs[r]
        called == CalledFns(run, {"onErrorFns"})
    IN \A n \in OnErrorFailures(run) :
         /\ run.pc = "resolved"
         /\ run.value = Some(run.inst)
         /\ run.epc = "rejected"
         /\ Failed(run)
         /\ run.out.error = FailureOf(run)
         /\ run.out.error # run.log[n].arg
         /\ run.out.result = Null
         /\ Cardinality(Started) = 1 =>
              (error[run.inst] = run.out.error /\ result[run.inst] = Null)
         /\ n = Len(run.log)
         /\ called # << >>
         /\ called[Len(called)] = run.log[n].fn
         /\ IsPrefix(called, Flatten(run.errFns))
         /\ run.out.fns = IF run.out.deleted THEN EmptyFns ELSE run.at

\* the first of two onError callables failed after a job failed, with the cleanup
\* option set: the second was not called and the functions are deleted
C30_Witness ==
  \E r \in Started :
    /\ runs[r].pc = "resolved"
    /\ runs[r].epc = "rejected"
    /\ FailedIn(runs[r], {"jobs"})
    /\ Flatten(runs[r].errFns) = << "e1", "e2" >>
    /\ CalledFns(runs[r], {"onErrorFns"}) = << "e1" >>
    /\ runs[r].out.deleted
    /\ fns[runs[r].inst] = EmptyFns
    /\ error[runs[r].inst] = Some(Throws(runs[r].log[Len(runs[r].log) - 2].fn))

\* ----------------------------------------------------------------------- C31

\* the start() failed with the cleanup option set and its error handling has ended
FailedAndCleaned(run) ==
  run.pc = "resolved" /\ Failed(run) /\ run.out.deleted /\ ErrorsEnded(run)

\* C31: with deleteFunctionsWhenJobsStarted true, the onError callables the instance
\* held when a start() failed are called with the captured value, in registration
\* order, after the cleanup emptied the slot-maps of the instance: all of them when
\* none of them fails, otherwise up to the one that fails. A callable registered
\* after the failure is not called.
C31_CleanupKeepsErrorHandling ==
  \A r \in Started :
    LET run == runs[r]
        called == SelectSeq(run.log, LAMBDA e : e.ev = "call" /\ e.role = "onErrorFns")
        names == CalledFns(run, {"onErrorFns"})
    IN (run.pc = "resolved" /\ Failed(run) /\ run.out.deleted) =>
         /\ run.out.fns = EmptyFns
         /\ IsPrefix(names, Flatten(run.errFns))
         /\ \A n \in 1..Len(called) : called[n].arg = run.out.error
         /\ run.epc = "done" => names = Flatten(run.errFns)
         /\ run.epc = "rejected" =>
              /\ run.log[Len(run.log)].ev = "fail"
              /\ run.log[Len(run.log)].fn = names[Len(names)]

\* a failed start() emptied the slot-maps while the first of two onError callables was
\* running; the second one was called after it all the same
C31_Witness ==
  \E r \in Started :
    /\ FailedAndCleaned(runs[r])
    /\ runs[r].epc = "done"
    /\ fns[runs[r].inst] = EmptyFns
    /\ CalledFns(runs[r], {"onErrorFns"}) = << "e1", "e2" >>

\* C31 as stated: every onError callable held when the failure occurred is called
C31_AllOnErrorInvoked ==
  \A r \in Started :
    FailedAndCleaned(runs[r])
      => CalledFns(runs[r], {"onErrorFns"}) = Flatten(runs[r].errFns)

\* ----------------------------------------------------------------------- C32

\* the names of a slot-map, in its order
NamesOf(map) == [n \in 1..Len(map) |-> map[n].name]

\* the registration of arg under name changes the slot-map of the role as said: a
\* name it has keeps its place and gets the callables passed, in the order passed;
\* a name it has not goes last
OrderKept(role, name, arg) ==
  LET map == fns[1][role]
      after == fns'[1][role]
      set == NewSet(ensureArray(arg))
  IN IF MapHas(map, name)
     THEN /\ NamesOf(after) = NamesOf(map)
          /\ \A n \in 1..Len(map) :
               after[n].fns = IF map[n].name = name THEN set ELSE map[n].fns
     ELSE after = Append(map, [name |-> name, fns |-> set])

\* the jobs and the onError callables of every start() were called in the order of
\* the slot-map, entry after entry
CalledInMapOrder ==
  \A r \in Started :
    LET run == runs[r]
    IN /\ IsPrefix(CalledFns(run, {"jobs"}), Flatten(run.at.jobs))
       /\ Succeeded(run) => CalledFns(run, {"jobs"}) = Flatten(run.at.jobs)
       /\ IsPrefix(CalledFns(run, {"onErrorFns"}), Flatten(run.errFns))
       /\ run.epc = "done" => CalledFns(run, {"onErrorFns"}) = Flatten(run.errFns)

\* C32: the callables of a role are called in the order of the names of its
\* slot-map and, within a name, in the order they were passed; a registration under
\* a name the slot-map has replaces its callables and keeps its place, a new name
\* goes last.
C32_InsertionOrder ==
  [][ /\ \A role \in {"jobs", "onErrorFns"}, n \in 1..Len(OrderNames) :
           \A arg \in {Array(<< "j4", "j3", "j4" >>), Fn("e3")} :
             Register(1, role, arg, Some(OrderNames[n])) => OrderKept(role, OrderNames[n], arg)
      /\ CalledInMapOrder' ]_vars

\* 'a' was registered before 'b' and registered again later, and a start() called
\* the new jobs of 'a' before the jobs of 'b'
C32_Witness ==
  \E r \in Started :
    /\ Succeeded(runs[r])
    /\ NamesOf(runs[r].at.jobs) = << "a", "b" >>
    /\ CalledFns(runs[r], {"jobs"}) = << "j4", "j3", "j2", "j3" >>

\* ----------------------------------------------------------------------- C33

\* C33: what onStart and onSuccess callables return is no part of the result: a
\* start() that ran its jobs without a failure leaves the aggregate of the jobs, and
\* a start() skipped by a predicate leaves the result as it found it, or null.
C33_ReturnsDiscarded ==
  \A r \in Started :
    LET run == runs[r]
    IN (run.pc = "resolved" /\ ~Failed(run) /\ ~run.cleared) =>
         IF Skipped(run)
         THEN run.out.result \in {run.prev, Null}
         ELSE IsAggregate(run.out.result, JobValues(run))

\* ----------------------------------------------------------------------- C34

\* C34: two instance() calls answered with the same instance have the same identity:
\* the same primary identifier and the same sub-path.
C34_DistinctIdentities ==
  \A c1, c2 \in calls :
    c1[3] = c2[3] => computeIdentifiers(c1[1], c1[2]) = computeIdentifiers(c2[1], c2[2])

\* ----------------------------------------------------------------------- C35

\* C35: compose, the composer returning instance b, leaves the predicates, the
\* options, the metadata, the result and the error of the caller as they are, and
\* every slot-map of b; the registry and the other instances too. When b is the
\* caller itself no slot-map changes at all.
C35_ComposeFrame ==
  [][ \A i \in Procs : \A b \in Procs :
        Compose(i, b) =>
          /\ fns'[i].predicateFns = fns[i].predicateFns
          /\ options' = options
          /\ metadata' = metadata
          /\ result' = result
          /\ error' = error
          /\ instances' = instances /\ identifiers' = identifiers
          /\ \A q \in Procs \ {i} : fns'[q] = fns[q]
          /\ b = i => fns' = fns ]_vars

\* the caller has a result and the cleanup option, holds the job of the bundle beside
\* its own predicate, and does not hold the predicate of the bundle
C35_Witness ==
  /\ result[1] # Null
  /\ options[1].deleteFunctionsWhenJobsStarted
  /\ MapHas(fns[2].predicateFns, "q")
  /\ MapHas(fns[1].predicateFns, "defaultPredicate")
  /\ ~MapHas(fns[1].predicateFns, "q")
  /\ MapHas(fns[1].jobs, "defaultJobs")
  /\ MapGet(fns[1].jobs, "defaultJobs") = << "j2" >>

\* ----------------------------------------------------------------------- C36

\* a start() skipped by the gate called the onSuccess callable and nothing else, and
\* settled with a null error
SkippedByGate ==
  \A r \in Started :
    LET run == runs[r]
    IN (run.pc = "resolved" /\ Skipped(run)) =>
         /\ CalledFns(run, {"onStartFns", "jobs", "onErrorFns"}) = << >>
         /\ CalledFns(run, {"onSuccessFns"}) = << "c1" >>
         /\ run.out.error = Null
         /\ error[run.inst] = Null

\* C36: the gate state is written when the predicate is evaluated and by nothing
\* else in start(): the failure of the jobs leaves it as the evaluation set it. An
\* evaluation no more than the delay after the recorded time returns false and
\* leaves the gate state, however the start() before ended; that start() calls no
\* job, calls the onSuccess callable and settles with a null error.
C36_GateSetAtEvaluation ==
  [][ /\ metadata' # metadata =>
           \E r \in 1..Len(runs) : SettleOlderThan(r, OlderThanSeconds, << >>)
      /\ \A r \in 1..Len(runs) :
           ( /\ SettleOlderThan(r, OlderThanSeconds, << >>)
             /\ Gate(1) # Null
             /\ now - Get(Gate(1)).lastDate <= OlderThanSeconds * MsPerSecond )
           => /\ metadata' = metadata
              /\ runs'[r].pc = "predRet"
              /\ ~runs'[r].val
      /\ SkippedByGate' ]_vars

\* a start() was skipped by the gate half a second or a second after the evaluation
\* that recorded the time, though the result it found was null: the job of the
\* start() before had failed
C36_Witness ==
  \E r \in Started :
    /\ runs[r].pc = "resolved"
    /\ Skipped(runs[r])
    /\ runs[r].prev = Null
    /\ lastEval.inst = runs[r].inst
    /\ lastEval.before # Null
    /\ lastEval.at > Get(lastEval.before).lastDate
    /\ CalledFns(runs[r], {"onSuccessFns"}) = << "c1" >>
    /\ error[runs[r].inst] = Null

\* ----------------------------------------------------------------------- C37

\* C37: on an instance with deleteFunctionsWhenJobsStarted true that withLogs was
\* applied to under the default name only, compose(withLogs(l1)) leaves the
\* callbacks of l1 registered, also when it is applied again after a start() deleted
\* them, so that the next start() calls l1.
C37_LoggedAgain ==
  [][ ( /\ WithLogs(1, "l1", Null)
        /\ options[1].deleteFunctionsWhenJobsStarted
        /\ ~Registered("n2") )
      => \A event \in LogEvents :
           /\ MapHas(fns'[1][LogRole(event)], WithLogsKey)
           /\ MapGet(fns'[1][LogRole(event)], WithLogsKey) = << LogFn("l1", event) >> ]_vars

\* ----------------------------------------------------------------------- C38

\* C38: when every callable awaited settles in the end, every start() that was
\* called has its promise resolved in the end, alone or overlapping another one,
\* whatever failed in it.
C38_StartSettles ==
  \A r \in 1..2 : InFlight(r) ~> (runs[r].pc = "resolved")

\* two overlapping start() calls have settled, one after a failure and one without
C38_Witness ==
  /\ runs[1].pc = "resolved" /\ runs[2].pc = "resolved"
  /\ runs[2].over
  /\ \E r \in 1..2 : Failed(runs[r])
  /\ \E r \in 1..2 : ~Failed(runs[r]) /\ ~Skipped(runs[r])

\* ----------------------------------------------------------------------- C39

\* the parts of a string between its '/' characters
RECURSIVE SplitAtSlash(_)
SplitAtSlash(str) ==
  IF \A n \in 1..Len(str) : str[n] # Slash THEN << str >>
  ELSE LET n == CHOOSE m \in 1..Len(str) : str[m] = Slash /\ \A k \in 1..(m - 1) : str[k] # Slash
       IN << SubSeq(str, 1, n - 1) >> \o SplitAtSlash(SubSeq(str, n + 1, Len(str)))

\* the sub-path is what computeIdentifiers is said to give for the sub-identifiers:
\* null for none supplied, the empty string for a list without a non-empty string,
\* else the non-empty ones joined with '/' in their order
SubPathOf(subPath, subIdentifiers) ==
  IF subIdentifiers = Null THEN subPath = Null
  ELSE LET kept == SelectSeq(Get(subIdentifiers), LAMBDA str : str # EmptyStr)
       IN /\ subPath # Null
          /\ IF kept = << >> THEN Get(subPath) = EmptyStr
             ELSE SplitAtSlash(Get(subPath)) = kept

\* C39: computeIdentifiers(primary, subIdentifiers) gives the primary identifier and
\* a sub-path that is null when no sub-identifiers are supplied, the empty string
\* when the list is empty or holds only empty strings, and else the non-empty
\* sub-identifiers joined with '/' in their order; a new instance gets this pair.
C39_SubPath ==
  /\ \A c \in calls :
       /\ computeIdentifiers(c[1], c[2])[1] = Some(c[1])
       /\ SubPathOf(computeIdentifiers(c[1], c[2])[2], c[2])
  /\ \A i \in Procs :
       \E subIdentifiers \in SubPathArgs :
         /\ identifiers[i][1] = Some(<< "a" >>)
         /\ SubPathOf(identifiers[i][2], subIdentifiers)

\* instances were made for a list of empty strings and for a list with an empty
\* string between two others
C39_Witness ==
  /\ \E c \in calls :
       /\ c[2] = Some(<< EmptyStr, EmptyStr >>)
       /\ identifiers[c[3]][2] = Some(EmptyStr)
  /\ \E c \in calls :
       /\ c[2] = Some(<< << "b" >>, EmptyStr, << "c" >> >>)
       /\ identifiers[c[3]][2] = Some(<< "b", "/", "c" >>)

\* C39 as stated: the sub-path is null also for an empty list and for a list of
\* empty strings
C39_EmptyIsNull ==
  \A c \in calls :
    (c[2] = Null \/ \A n \in 1..Len(Get(c[2])) : Get(c[2])[n] = EmptyStr)
      => computeIdentifiers(c[1], c[2])[2] = Null

====
